---- MODULE Spec2Model ----
(***************************************************************************)
(* MOOZ conferencing system: the relay server's session registry and its   *)
(* connection-handler threads (src/server.py), and the wire-protocol       *)
(* demultiplexers of the server (src/server.py) and of the client          *)
(* (src/client_network.py).                                                *)
(***************************************************************************)
EXTENDS Integers, Sequences, FiniteSets, TLC

(***************************************************************************)
(* Bounds of the model.                                                    *)
(***************************************************************************)
\* Number of TCP connections the server accepts (one handler thread each).
MaxConns == 3
\* Number of MSG commands a client sends on its connection.
MaxMsgs == 1

Conns == 1..MaxConns
Usernames == {"alice", "bob"}
Texts == {"hi"}

\* The registry lock is held by no thread.
Free == 0
\* No username (handle_client's username = None before the JOIN is parsed).
NoUser == ""
\* broadcast's sender_conn=None default: nobody is excluded.
NoConn == 0

VARIABLES
    clients,           \* self.clients, in dict (insertion) order: <<[conn, username]>>
    username_to_conn,  \* self.username_to_conn: username -> conn
    lock,              \* self.lock: Free, or the thread that holds it
    thr,               \* per handler thread: its call stack (a sequence of frames)
    sent,              \* per connection: the messages written to its socket
    closed,            \* per connection: conn.close() was called by the server
    peerClosed,        \* per connection: the client closed or reset its end
    joinResult,        \* per connection: what the registration step decided
    nmsg,              \* per connection: MSG commands received so far
    \* One receive loop and its demultiplexer (handle_client's main loop on the
    \* server, TCPReceiver.run on the client):
    side,              \* which endpoint's loop this is: "server", "client" ("none": not run)
    input,             \* the bytes the peer writes to the socket
    pos,               \* how many of them the loop's recv calls have returned so far
    buffer,            \* the loop's local `buffer`
    dpc,               \* the loop's position: "recv", "parse", "stopped" ("idle": not run)
    frames,            \* what the loop has dispatched or emitted, in order
    is_receiving_file, \* TCPReceiver.is_receiving_file
    worker,            \* the client's incoming-file dialog and FileReceiverWorker
    \* The file relay, the command dispatcher and the UDP relay:
    relay,             \* the handle_file_transfer threads started so far, in order
    dispatched,        \* per connection: the command handle_client dispatched last
    client_udp_addr,   \* per connection: the address half of self.clients[conn]
    udp,               \* the udp_listener thread: its position and local variables
    udp_sent,          \* the sock.sendto calls that went through: <<[data, to]>>
    \* One client's media receiver and the writers to its TCP socket:
    media,             \* MediaReceiver: self.metrics and the packets received
    csend              \* the client's GUI thread and workers writing to tcp_socket

regVars == <<clients, username_to_conn, lock, thr, sent, closed, peerClosed,
             joinResult, nmsg>>

dmxVars == <<side, input, pos, buffer, dpc, frames, is_receiving_file, worker>>

cliVars == <<media, csend>>

auxVars == <<relay, dispatched, client_udp_addr, udp, udp_sent, media, csend>>

vars == <<clients, username_to_conn, lock, thr, sent, closed, peerClosed,
          joinResult, nmsg,
          side, input, pos, buffer, dpc, frames, is_receiving_file, worker,
          relay, dispatched, client_udp_addr, udp, udp_sent, media, csend>>

(***************************************************************************)
(* Messages the server writes (server.py builds them as f-strings).        *)
(***************************************************************************)
\* A refusal with another text.
ErrorOther == <<"ERROR", "TAKEN">>
ErrorUsernameTaken == <<"ERROR", "USERNAME_TAKEN">>
SystemJoined(u) == <<"SYSTEM", u, "has joined the chat.">>
SystemLeft(u) == <<"SYSTEM", u, "has left the chat.">>
UserLeft(u) == <<"USER_LEFT", u>>
Chat(u, text) == <<"CHAT", u, text>>

(***************************************************************************)
(* The registry maps.                                                      *)
(***************************************************************************)
ClientConns == {clients[i].conn : i \in 1..Len(clients)}
ClientKeys == [i \in 1..Len(clients) |-> clients[i].conn]
UsernameOf(c) == clients[CHOOSE i \in 1..Len(clients) : clients[i].conn = c].username
ClientsPop(c) == SelectSeq(clients, LAMBDA r : r.conn # c)
ClientsPut(c, u) ==
    IF c \in ClientConns
    THEN [i \in 1..Len(clients) |->
            IF clients[i].conn = c THEN [conn |-> c, username |-> u] ELSE clients[i]]
    ELSE Append(clients, [conn |-> c, username |-> u])
\* A registration that forgets the second map.
MapPutDropped(m, k, v) == m
MapPut(m, k, v) == [x \in DOMAIN m \cup {k} |-> IF x = k THEN v ELSE m[x]]
MapPop(m, k) == [x \in DOMAIN m \ {k} |-> m[x]]

(***************************************************************************)
(* Bytes.  A byte string is a sequence of one-character strings; BadByte   *)
(* stands for a byte that is not valid UTF-8 (0xFF).                       *)
(***************************************************************************)
NL == "\n"
BadByte == "xFF"
Min(a, b) == IF a < b THEN a ELSE b
Max(a, b) == IF a > b THEN a ELSE b

\* b in s; s.partition(b)[0]; s.partition(b)[2] (used only when b is in s)
FirstAt(s, b) ==
    IF \E i \in 1..Len(s) : s[i] = b
    THEN CHOOSE i \in 1..Len(s) : s[i] = b /\ \A j \in 1..(i - 1) : s[j] # b
    ELSE 0
\* (the byte string is evaluated once, then searched)
IndexOf(s, b) == CHOOSE n \in {FirstAt(t, b) : t \in {s}} : TRUE
Contains(s, b) == IndexOf(s, b) > 0
Before(s, b) == SubSeq(s, 1, IndexOf(s, b) - 1)
After(s, b) == SubSeq(s, IndexOf(s, b) + 1, Len(s))

\* bytes.decode('utf-8') raises on an invalid byte; errors='ignore' drops it.
DecodeOk(s) == \A i \in 1..Len(s) : s[i] # BadByte
DecodeIgnore(s) == SelectSeq(s, LAMBDA b : b # BadByte)

\* A slice that drops one byte too many.
PySliceFromSkipping(s, n) == SubSeq(s, Min(n, Len(s)) + 2, Len(s))
\* s[n:] and s[:n], with Python's meaning of a negative n.
PySliceFrom(s, n) ==
    IF n >= 0 THEN SubSeq(s, Min(n, Len(s)) + 1, Len(s))
    ELSE SubSeq(s, Max(Len(s) + n, 0) + 1, Len(s))
PySliceTo(s, n) ==
    IF n >= 0 THEN SubSeq(s, 1, Min(n, Len(s)))
    ELSE SubSeq(s, 1, Max(Len(s) + n, 0))

\* int(): surrounding whitespace, an optional sign, decimal digits with single
\* underscores between them; anything else raises ValueError ([ok |-> FALSE]).
DigitChars == <<"0", "1", "2", "3", "4", "5", "6", "7", "8", "9">>
IsDigit(b) == \E i \in 1..Len(DigitChars) : DigitChars[i] = b
DigitValue(b) == (CHOOSE i \in 1..Len(DigitChars) : DigitChars[i] = b) - 1
RECURSIVE DecimalValue(_)
DecimalValue(s) ==
    IF s = <<>> THEN 0
    ELSE DecimalValue(SubSeq(s, 1, Len(s) - 1)) * 10 + DigitValue(s[Len(s)])
IsSpace(b) == b \in {NL, " "}
RECURSIVE Strip(_)
Strip(s) ==
    IF s # <<>> /\ IsSpace(s[1]) THEN Strip(Tail(s))
    ELSE IF s # <<>> /\ IsSpace(s[Len(s)]) THEN Strip(SubSeq(s, 1, Len(s) - 1))
    ELSE s
PyInt(s) ==
    LET t == Strip(s)
        signed == t # <<>> /\ t[1] \in {"+", "-"}
        body == IF signed THEN Tail(t) ELSE t
        digits == SelectSeq(body, LAMBDA b : b # "_")
        ok == /\ DecodeOk(s)
              /\ body # <<>>
              /\ \A i \in 1..Len(body) : IsDigit(body[i]) \/ body[i] = "_"
              /\ body[1] # "_" /\ body[Len(body)] # "_"
              /\ \A i \in 1..(Len(body) - 1) : ~(body[i] = "_" /\ body[i + 1] = "_")
    IN [ok |-> ok,
        value |-> IF ~ok THEN 0
                  ELSE IF signed /\ t[1] = "-" THEN 0 - DecimalValue(digits)
                  ELSE DecimalValue(digits)]

\* str.split(':', 2): the three parts, when there are at least two colons.
HasThreeParts(s) == Contains(s, ":") /\ Contains(After(s, ":"), ":")
ThirdPart(s) == After(After(s, ":"), ":")

(***************************************************************************)
(* Command names.                                                          *)
(***************************************************************************)
MSG == <<"M", "S", "G">>
PING == <<"P", "I", "N", "G">>
SCRN_START == <<"S", "C", "R", "N", "_", "S", "T", "A", "R", "T">>
SCRN_STOP == <<"S", "C", "R", "N", "_", "S", "T", "O", "P">>
FILE_INIT == <<"F", "I", "L", "E", "_", "I", "N", "I", "T">>
SCRN == <<"S", "C", "R", "N">>
SYSTEM == <<"S", "Y", "S", "T", "E", "M">>
CHAT == <<"C", "H", "A", "T">>
PONG == <<"P", "O", "N", "G">>
FILE_INCOMING == <<"F", "I", "L", "E", "_", "I", "N", "C", "O", "M", "I", "N", "G">>
USER_LEFT == <<"U", "S", "E", "R", "_", "L", "E", "F", "T">>

ServerTextCommands == {MSG, PING, SCRN_START, SCRN_STOP, FILE_INIT}
ClientTextCommands == {SYSTEM, CHAT, PONG, SCRN_START, SCRN_STOP, FILE_INCOMING, USER_LEFT}

(***************************************************************************)
(* One iteration of a demultiplexer's inner `while True:` loop, as a       *)
(* function of the buffer: the buffer it leaves, what it dispatches        *)
(* (emit), and whether the loop goes round again or breaks to the next     *)
(* recv.  On the client, raw says that is_receiving_file was set and stop  *)
(* that an exception ended TCPReceiver.run.                                *)
(***************************************************************************)
TextFrame(command, payload) == [kind |-> "text", command |-> command, payload |-> payload]
ScrnFrame(data) == [kind |-> "SCRN", data |-> data]
ScrnFrameFrom(username, data) == [kind |-> "SCRN", username |-> username, data |-> data]
FileData(b) == [kind |-> "file", byte |-> b]

Outcome(buf, emit, again) ==
    [buffer |-> buf, emit |-> emit, again |-> again, raw |-> FALSE, stop |-> FALSE, filesize |-> 0]
\* An incomplete frame that is thrown away instead of being kept.
IncompleteDiscarded(buf) == Outcome(<<>>, <<>>, FALSE)
\* `else: break`: the frame is incomplete, keep the buffer and wait for more bytes
Incomplete(buf) == Outcome(buf, <<>>, FALSE)
\* A discard that also ends the receive loop.
DiscardAndStop == [Outcome(<<>>, <<>>, FALSE) EXCEPT !.stop = TRUE]
\* A discard that stops at the next newline and parses on from there.
DiscardToLineBoundary ==
    Outcome(IF Contains(buffer, NL) THEN After(buffer, NL) ELSE <<>>, <<>>, TRUE)
\* A discard that passes an empty chat message on.
DiscardDispatching == Outcome(<<>>, <<TextFrame(MSG, <<>>)>>, FALSE)
\* `buffer = b""; break`: unknown command or malformed header
Discard == Outcome(<<>>, <<>>, FALSE)
\* an exception leaves TCPReceiver.run's loop
Raise(buf) == [Outcome(buf, <<>>, FALSE) EXCEPT !.stop = TRUE]

\* A payload that keeps its newline.
TextPayloadWithNewline(rest) == DecodeIgnore(SubSeq(rest, 1, IndexOf(rest, NL)))
\* payload, _, buffer = rest.partition(b'\n'); payload.decode('utf-8', errors='ignore')
TextPayload(rest) == DecodeIgnore(Before(rest, NL))

ServerParseStep(buf) ==
    IF ~Contains(buf, ":") THEN Incomplete(buf)
    ELSE LET header == Before(buf, ":")
             rest == After(buf, ":")
             command == DecodeIgnore(header)
         IN IF command \in ServerTextCommands
            THEN IF Contains(rest, NL)
                 THEN Outcome(After(rest, NL),
                              <<TextFrame(command, TextPayload(rest))>>, TRUE)
                 ELSE Incomplete(buf)
            ELSE IF command = SCRN
            THEN IF Contains(rest, ":")
                 THEN LET size_str == Before(rest, ":")
                          data_rest == After(rest, ":")
                          data_size == PyInt(size_str)
                      IN IF ~data_size.ok THEN Discard
                         ELSE IF Len(data_rest) >= data_size.value
                         THEN Outcome(PySliceFrom(data_rest, data_size.value),
                                      <<ScrnFrame(PySliceTo(data_rest, data_size.value))>>,
                                      TRUE)
                         ELSE Incomplete(buf)
                 ELSE Incomplete(buf)
            ELSE Discard

\* process_command, for a command whose payload decoded
ProcessCommand(command, payload, buf) ==
    IF command = FILE_INCOMING
    THEN IF HasThreeParts(payload) /\ PyInt(ThirdPart(payload)).ok
         THEN [Outcome(buf, <<TextFrame(command, payload)>>, TRUE)
                  EXCEPT !.raw = TRUE, !.filesize = PyInt(ThirdPart(payload)).value]
         ELSE Raise(buf)
    ELSE Outcome(buf, <<TextFrame(command, payload)>>, TRUE)

ClientParseStep(buf) ==
    IF ~Contains(buf, ":") THEN Incomplete(buf)
    ELSE LET header == Before(buf, ":")
             rest == After(buf, ":")
         IN IF ~DecodeOk(header) THEN Discard
            ELSE IF header \in ClientTextCommands
            THEN IF Contains(rest, NL)
                 THEN IF DecodeOk(Before(rest, NL))
                      THEN ProcessCommand(header, Before(rest, NL), After(rest, NL))
                      ELSE Raise(After(rest, NL))
                 ELSE Incomplete(buf)
            ELSE IF header = SCRN
            THEN IF Contains(rest, ":")
                 THEN LET username_bytes == Before(rest, ":")
                          data_rest == After(rest, ":")
                      IN IF ~DecodeOk(username_bytes) THEN Raise(buf)
                         ELSE IF Contains(data_rest, ":")
                         THEN LET size_str == Before(data_rest, ":")
                                  frame_data == After(data_rest, ":")
                                  frame_size == PyInt(size_str)
                              IN IF ~frame_size.ok THEN Discard
                                 ELSE IF Len(frame_data) >= frame_size.value
                                 THEN Outcome(PySliceFrom(frame_data, frame_size.value),
                                              <<ScrnFrameFrom(username_bytes,
                                                   PySliceTo(frame_data, frame_size.value))>>,
                                              TRUE)
                                 ELSE Incomplete(buf)
                         ELSE Incomplete(buf)
                 ELSE Incomplete(buf)
            ELSE Discard

\* No incoming-file dialog and no FileReceiverWorker.
\* queued counts the bytes of the file_data_received emissions that write_chunk has
\* not handled yet.
NoWorker == [state |-> "none", filesize |-> 0, bytes_received |-> 0, queued |-> 0]

\* The receive loop is not part of the run.
DemuxIdle ==
    /\ side = "none"
    /\ input = <<>>
    /\ pos = 0
    /\ buffer = <<>>
    /\ dpc = "idle"
    /\ frames = <<>>
    /\ is_receiving_file = FALSE
    /\ worker = NoWorker

\* No command dispatched yet.
NoCommand == [command |-> <<>>, payload |-> <<>>]
\* No UDP address, no datagram.
NoAddr == "none"
NoDatagram == <<>>
\* The udp_listener thread is not part of the run.
UdpIdleThread == [pc |-> "idle", data |-> NoDatagram, addr |-> NoAddr, queue |-> <<>>]

\* The client's MediaReceiver has received nothing: self.metrics = {}.
MediaIdle == [metrics |-> <<>>, log |-> <<>>, emitted |-> <<>>, pc |-> "idle"]
\* Nothing has been written to the client's socket; no worker runs.
CsendIdle == [wire |-> <<>>, file |-> "none", left |-> <<>>, sharing |-> FALSE, nwrites |-> 0]
ClientIdle == media = MediaIdle /\ csend = CsendIdle

\* No file relay, no dispatcher and no UDP relay are part of the run.
AuxIdle ==
    /\ relay = <<>>
    /\ dispatched = [c \in Conns |-> NoCommand]
    /\ client_udp_addr = [c \in Conns |-> NoAddr]
    /\ udp = UdpIdleThread
    /\ udp_sent = <<>>
    /\ ClientIdle

(***************************************************************************)
(* Handler threads.  Thread t serves connection t; thr[t] is its call      *)
(* stack, innermost frame last, and <<>> once handle_client has returned   *)
(* (or before the connection is accepted).                                 *)
(***************************************************************************)
HandleClientFrame(p, u) == [fn |-> "handle_client", pc |-> p, username |-> u]
BroadcastFrame(m, ex) ==
    [fn |-> "broadcast", pc |-> "lock", message |-> m, sender_conn |-> ex, queue |-> <<>>]
RemoveClientFrame(c) == [fn |-> "remove_client", pc |-> "lock", conn |-> c, username |-> NoUser]

Top(t) == thr[t][Len(thr[t])]
Under(t) == SubSeq(thr[t], 1, Len(thr[t]) - 1)
At(t, f, p) == Len(thr[t]) > 0 /\ Top(t).fn = f /\ Top(t).pc = p
SetTop(t, fr) == [thr EXCEPT ![t] = Under(t) \o <<fr>>]
Call(t, caller, callee) == [thr EXCEPT ![t] = Under(t) \o <<caller, callee>>]
Return(t) == [thr EXCEPT ![t] = Under(t)]

\* conn.sendall on connection d: it raises once the server has closed d, and may
\* raise once the peer has closed or reset its end.
WriteOutcomes(d) ==
    {ok \in BOOLEAN : (ok => ~closed[d]) /\ (~ok => (closed[d] \/ peerClosed[d]))}
Written(d, m, ok) == IF ok THEN [sent EXCEPT ![d] = Append(@, m)] ELSE sent

\* An acquire that never waits.
NeverWaits(t) == TRUE
\* threading.Lock(): acquire blocks until the lock is free, whoever holds it.
CanAcquire(t) == lock = Free

\* A registration that never looks the username up.
NameTakenNever(u) == FALSE
\* `username in self.username_to_conn`
NameTaken(u) == u \in DOMAIN username_to_conn

\* start(): accept a connection and start its handler thread.
Accept(c) ==
    /\ joinResult[c] = "unconnected"
    /\ joinResult' = [joinResult EXCEPT ![c] = "pending"]
    /\ thr' = [thr EXCEPT ![c] = <<HandleClientFrame("recv_join", NoUser)>>]
    /\ UNCHANGED <<clients, username_to_conn, lock, sent, closed, peerClosed, nmsg>>
    /\ UNCHANGED <<dmxVars, auxVars>>

\* The client closes or resets its end of connection c.
PeerClose(c) ==
    /\ joinResult[c] # "unconnected"
    /\ ~peerClosed[c]
    /\ peerClosed' = [peerClosed EXCEPT ![c] = TRUE]
    /\ UNCHANGED <<clients, username_to_conn, lock, thr, sent, closed, joinResult, nmsg>>
    /\ UNCHANGED <<dmxVars, auxVars>>

\* handle_client, registration: read and parse the JOIN message.
RecvJoin(t) ==
    /\ At(t, "handle_client", "recv_join")
    /\ \/ \* JOIN:<username>:<port>
          /\ ~peerClosed[t]
          /\ \E u \in Usernames : thr' = SetTop(t, HandleClientFrame("join_lock", u))
          /\ UNCHANGED <<closed, joinResult>>
       \/ \* anything else (also the empty read of a closed peer): conn.close(); return,
          \* or int(parts[2]) raises and the handler ends without conn.close()
          /\ \E explicit \in BOOLEAN :
                closed' = [closed EXCEPT ![t] = explicit]
          /\ thr' = [thr EXCEPT ![t] = <<>>]
          /\ joinResult' = [joinResult EXCEPT ![t] = "invalid"]
    /\ UNCHANGED <<clients, username_to_conn, lock, sent, peerClosed, nmsg>>
    /\ UNCHANGED <<dmxVars, auxVars>>

\* handle_client, `with self.lock:` of the registration.
JoinAcquire(t) ==
    /\ At(t, "handle_client", "join_lock")
    /\ CanAcquire(t)
    /\ lock' = t
    /\ thr' = SetTop(t, [Top(t) EXCEPT !.pc = "join_check"])
    /\ UNCHANGED <<clients, username_to_conn, sent, closed, peerClosed, joinResult, nmsg>>
    /\ UNCHANGED <<dmxVars, auxVars>>

\* handle_client, under the lock: refuse a taken username, or self.clients[conn] = ...
JoinCheck(t) ==
    /\ At(t, "handle_client", "join_check")
    /\ LET u == Top(t).username IN
       IF NameTaken(u)
       THEN \E ok \in WriteOutcomes(t) :
              /\ sent' = Written(t, ErrorUsernameTaken, ok)
              /\ closed' = [closed EXCEPT ![t] = ok]
              /\ thr' = IF ok THEN [thr EXCEPT ![t] = <<>>]
                        ELSE SetTop(t, [Top(t) EXCEPT !.pc = "finally"])
              /\ lock' = Free
              /\ joinResult' = [joinResult EXCEPT ![t] = "rejected"]
              /\ UNCHANGED clients
       ELSE /\ clients' = ClientsPut(t, u)
            /\ thr' = SetTop(t, [Top(t) EXCEPT !.pc = "join_register"])
            /\ joinResult' = [joinResult EXCEPT ![t] = "accepted"]
            /\ UNCHANGED <<lock, sent, closed>>
    /\ UNCHANGED <<username_to_conn, peerClosed, nmsg>>
    /\ UNCHANGED <<dmxVars, auxVars>>

\* handle_client, under the lock: self.username_to_conn[username] = conn; the lock is
\* released and the join is announced to the others.
JoinRegister(t) ==
    /\ At(t, "handle_client", "join_register")
    /\ LET u == Top(t).username IN
       /\ username_to_conn' = MapPut(username_to_conn, u, t)
       /\ thr' = Call(t, HandleClientFrame("recv", u), BroadcastFrame(SystemJoined(u), t))
    /\ lock' = Free
    /\ UNCHANGED <<clients, sent, closed, peerClosed, joinResult, nmsg>>
    /\ UNCHANGED <<dmxVars, auxVars>>

\* broadcast, `with self.lock:` and the snapshot list(self.clients.keys()).
BroadcastAcquire(t) ==
    /\ At(t, "broadcast", "lock")
    /\ CanAcquire(t)
    /\ lock' = t
    /\ thr' = SetTop(t, [Top(t) EXCEPT !.pc = "loop", !.queue = ClientKeys])
    /\ UNCHANGED <<clients, username_to_conn, sent, closed, peerClosed, joinResult, nmsg>>
    /\ UNCHANGED <<dmxVars, auxVars>>

\* broadcast, one iteration of the loop: skip the sender, write to a peer, or call
\* remove_client on the peer whose write raised.
BroadcastSend(t) ==
    /\ At(t, "broadcast", "loop")
    /\ Top(t).queue # <<>>
    /\ LET d == Head(Top(t).queue)
           rest == [Top(t) EXCEPT !.queue = Tail(@)]
       IN IF d = Top(t).sender_conn
          THEN /\ thr' = SetTop(t, rest)
               /\ UNCHANGED sent
          ELSE \E ok \in WriteOutcomes(d) :
                 /\ sent' = Written(d, Top(t).message, ok)
                 /\ thr' = IF ok THEN SetTop(t, rest)
                           ELSE Call(t, rest, RemoveClientFrame(d))
    /\ UNCHANGED <<clients, username_to_conn, lock, closed, peerClosed, joinResult, nmsg>>
    /\ UNCHANGED <<dmxVars, auxVars>>

\* broadcast, end of the loop: the `with` block releases the lock and broadcast returns.
BroadcastReturn(t) ==
    /\ At(t, "broadcast", "loop")
    /\ Top(t).queue = <<>>
    /\ lock' = Free
    /\ thr' = Return(t)
    /\ UNCHANGED <<clients, username_to_conn, sent, closed, peerClosed, joinResult, nmsg>>
    /\ UNCHANGED <<dmxVars, auxVars>>

\* handle_client, main loop: a zero-byte read or an error ends the loop; a complete
\* MSG command is dispatched to handle_tcp_message, which broadcasts it as CHAT.
Recv(t) ==
    /\ At(t, "handle_client", "recv")
    /\ \/ /\ peerClosed[t] \/ closed[t]
          /\ thr' = SetTop(t, [Top(t) EXCEPT !.pc = "finally"])
          /\ UNCHANGED nmsg
       \/ /\ ~peerClosed[t] /\ ~closed[t]
          /\ nmsg[t] < MaxMsgs
          /\ nmsg' = [nmsg EXCEPT ![t] = @ + 1]
          /\ \E text \in Texts :
                thr' = Call(t, Top(t), BroadcastFrame(Chat(Top(t).username, text), t))
    /\ UNCHANGED <<clients, username_to_conn, lock, sent, closed, peerClosed, joinResult>>
    /\ UNCHANGED <<dmxVars, auxVars>>

\* handle_client, finally: `if conn in self.clients: self.remove_client(conn)`, the
\* handler's last statement.
Finally(t) ==
    /\ At(t, "handle_client", "finally")
    /\ thr' = [thr EXCEPT ![t] = IF t \in ClientConns THEN <<RemoveClientFrame(t)>> ELSE <<>>]
    /\ UNCHANGED <<clients, username_to_conn, lock, sent, closed, peerClosed, joinResult, nmsg>>
    /\ UNCHANGED <<dmxVars, auxVars>>

\* remove_client, `with self.lock:`.
RemoveClientAcquire(t) ==
    /\ At(t, "remove_client", "lock")
    /\ CanAcquire(t)
    /\ lock' = t
    /\ thr' = SetTop(t, [Top(t) EXCEPT !.pc = "body"])
    /\ UNCHANGED <<clients, username_to_conn, sent, closed, peerClosed, joinResult, nmsg>>
    /\ UNCHANGED <<dmxVars, auxVars>>

\* remove_client, one statement of its body under the lock.
RemoveClientStep(t) ==
    /\ Len(thr[t]) > 0 /\ Top(t).fn = "remove_client" /\ Top(t).pc # "lock"
    /\ LET f == Top(t) IN
       CASE f.pc = "body" ->
              IF f.conn \in ClientConns
              THEN \* username, _ = self.clients.pop(conn)
                   /\ clients' = ClientsPop(f.conn)
                   /\ thr' = SetTop(t, [f EXCEPT !.pc = "pop_username",
                                                 !.username = UsernameOf(f.conn)])
                   /\ UNCHANGED <<username_to_conn, lock, closed>>
              ELSE \* nothing to do: the `with` block releases the lock
                   /\ lock' = Free
                   /\ thr' = Return(t)
                   /\ UNCHANGED <<clients, username_to_conn, closed>>
         [] f.pc = "pop_username" ->
              \* self.username_to_conn.pop(username, None); self.broadcast(USER_LEFT)
              /\ username_to_conn' = MapPop(username_to_conn, f.username)
              /\ thr' = Call(t, [f EXCEPT !.pc = "user_left_sent"],
                             BroadcastFrame(UserLeft(f.username), NoConn))
              /\ UNCHANGED <<clients, lock, closed>>
         [] f.pc = "user_left_sent" ->
              \* self.broadcast(SYSTEM ... has left the chat.)
              /\ thr' = Call(t, [f EXCEPT !.pc = "system_sent"],
                             BroadcastFrame(SystemLeft(f.username), NoConn))
              /\ UNCHANGED <<clients, username_to_conn, lock, closed>>
         [] f.pc = "system_sent" ->
              \* conn.close(); the `with` block releases the lock
              /\ closed' = [closed EXCEPT ![f.conn] = TRUE]
              /\ lock' = Free
              /\ thr' = Return(t)
              /\ UNCHANGED <<clients, username_to_conn>>
    /\ UNCHANGED <<sent, peerClosed, joinResult, nmsg>>
    /\ UNCHANGED <<dmxVars, auxVars>>

\* One step of handler thread t.
ThreadStep(t) ==
    \/ RecvJoin(t) \/ JoinAcquire(t) \/ JoinCheck(t) \/ JoinRegister(t)
    \/ BroadcastAcquire(t) \/ BroadcastSend(t) \/ BroadcastReturn(t)
    \/ Recv(t) \/ Finally(t)
    \/ RemoveClientAcquire(t) \/ RemoveClientStep(t)

\* A step the server takes on its own, without waiting for a client: every step but
\* a read from a peer that is still connected.
ServerStep(t) ==
    \/ JoinAcquire(t) \/ JoinCheck(t) \/ JoinRegister(t)
    \/ BroadcastAcquire(t) \/ BroadcastSend(t) \/ BroadcastReturn(t)
    \/ Finally(t)
    \/ RemoveClientAcquire(t) \/ RemoveClientStep(t)
    \/ (peerClosed[t] /\ (RecvJoin(t) \/ Recv(t)))

Init ==
    /\ clients = <<>>
    /\ username_to_conn = <<>>
    /\ lock = Free
    /\ thr = [c \in Conns |-> <<>>]
    /\ sent = [c \in Conns |-> <<>>]
    /\ closed = [c \in Conns |-> FALSE]
    /\ peerClosed = [c \in Conns |-> FALSE]
    /\ joinResult = [c \in Conns |-> "unconnected"]
    /\ nmsg = [c \in Conns |-> 0]
    /\ DemuxIdle
    /\ AuxIdle

Next == \E c \in Conns : Accept(c) \/ PeerClose(c) \/ ThreadStep(c)

Spec == Init /\ [][Next]_vars

\* The scheduler runs every thread that can take a step; clients need not act.
FairSpec == Spec /\ \A t \in Conns : WF_vars(ServerStep(t))


(***************************************************************************)
(* The receive loops: handle_client's main loop (server) and               *)
(* TCPReceiver.run (client), fed a byte string in reads of any sizes.      *)
(***************************************************************************)
\* conn.recv(4096): the most one read returns
RecvSize == 4096
\* The most frames in one input.
MaxFrames == 2

\* What a peer can write: the frames of the protocol, and malformed ones.
\* MSG:<text> (the text holds a colon)
InMsg == <<"M", "S", "G", ":", "a", ":", "b", NL>>
\* PING:<timestamp>
InPing == <<"P", "I", "N", "G", ":", "7", NL>>
\* SCRN_STOP:<username>
InScrnStop == <<"S", "C", "R", "N", "_", "S", "T", "O", "P", ":", "b", NL>>
\* FILE_INIT:<target>:<filename>:<size>
InFileInit == <<"F", "I", "L", "E", "_", "I", "N", "I", "T", ":", "b", ":", "f", ":", "1", NL>>
\* SCRN:<len>:<bytes>, a frame of two bytes, a colon and a newline
InScrn == <<"S", "C", "R", "N", ":", "2", ":", ":", NL>>
\* SCRN:<len>:<bytes>, an empty frame
InScrnEmpty == <<"S", "C", "R", "N", ":", "0", ":">>
\* an unknown command
InUnknown == <<"X", ":">>
\* a SCRN length that is no integer
InBadLength == <<"S", "C", "R", "N", ":", "z", ":">>
\* a negative SCRN length
InNegLength == <<"S", "C", "R", "N", ":", "-", "1", ":", "a", "b">>
\* a command name with an undecodable byte
InBadHeader == <<BadByte, "M", "S", "G", ":", "a", NL>>
\* CHAT:<username>:<text>
InChat == <<"C", "H", "A", "T", ":", "b", ":", "h", "i", NL>>
\* PONG:<timestamp>
InPong == <<"P", "O", "N", "G", ":", "7", NL>>
\* USER_LEFT:<username>
InUserLeft == <<"U", "S", "E", "R", "_", "L", "E", "F", "T", ":", "b", NL>>
\* FILE_INCOMING:<sender>:<filename>:<size> and the one file byte
InFileIncoming == <<"F", "I", "L", "E", "_", "I", "N", "C", "O", "M", "I", "N", "G", ":", "b", ":", "f", ":", "1", NL, "x">>
\* FILE_INCOMING for an empty file
InFileIncomingEmpty == <<"F", "I", "L", "E", "_", "I", "N", "C", "O", "M", "I", "N", "G", ":", "b", ":", "f", ":", "0", NL>>
\* SCRN:<username>:<len>:<bytes>, a frame of two bytes
InScrnFrom == <<"S", "C", "R", "N", ":", "b", ":", "2", ":", ":", NL>>
\* SCRN:<username>:<len>:<bytes>, an empty frame
InScrnFromEmpty == <<"S", "C", "R", "N", ":", "b", ":", "0", ":">>
\* an unknown command
InUnknownFrom == <<"Y", ":">>
\* a SCRN length that is no integer
InBadLengthFrom == <<"S", "C", "R", "N", ":", "b", ":", "z", ":">>
\* a negative SCRN length
InNegLengthFrom == <<"S", "C", "R", "N", ":", "b", ":", "-", "1", ":", "a", "b">>
\* a command name with an undecodable byte
InBadHeaderFrom == <<BadByte, "C", "H", "A", "T", ":", "b", ":", "h", "i", NL>>

ServerFrames == {InMsg, InPing, InScrnStop, InFileInit, InScrn, InScrnEmpty}
ServerMalformed == {InUnknown, InBadLength, InNegLength, InBadHeader}
ClientFrames == {InChat, InPong, InUserLeft, InFileIncoming, InFileIncomingEmpty,
                 InScrnFrom, InScrnFromEmpty}
ClientMalformed == {InUnknownFrom, InBadLengthFrom, InNegLengthFrom, InBadHeaderFrom}

RECURSIVE Streams(_, _)
Streams(pieces, n) ==
    IF n = 0 THEN {<<>>}
    ELSE Streams(pieces, n - 1) \cup {s \o p : s \in Streams(pieces, n - 1), p \in pieces}

ServerInputs == Streams(ServerFrames \cup ServerMalformed, MaxFrames)
ClientInputs == Streams(ClientFrames \cup ClientMalformed, MaxFrames)
\* Streams of well-formed frames only.
ServerWellFormed == Streams(ServerFrames, MaxFrames)
ClientWellFormed == Streams(ClientFrames, MaxFrames)

InitDemux ==
    /\ clients = <<>>
    /\ username_to_conn = <<>>
    /\ lock = Free
    /\ thr = [c \in Conns |-> <<>>]
    /\ sent = [c \in Conns |-> <<>>]
    /\ closed = [c \in Conns |-> FALSE]
    /\ peerClosed = [c \in Conns |-> FALSE]
    /\ joinResult = [c \in Conns |-> "unconnected"]
    /\ nmsg = [c \in Conns |-> 0]
    /\ side \in {"server", "client"}
    /\ input \in (IF side = "server" THEN ServerInputs ELSE ClientInputs)
    /\ pos = 0
    /\ buffer = <<>>
    /\ dpc = "recv"
    /\ frames = <<>>
    /\ is_receiving_file = FALSE
    /\ worker = NoWorker
    /\ AuxIdle

\* The bytes of one read of n bytes.
Chunk(n) == SubSeq(input, pos + 1, pos + n)
ReadSizes == 1..Min(RecvSize, Len(input) - pos)

\* handle_client: data = conn.recv(4096); buffer += data
ServerRecv ==
    /\ side = "server" /\ dpc = "recv"
    /\ \E n \in ReadSizes :
          /\ buffer' = buffer \o Chunk(n)
          /\ pos' = pos + n
    /\ dpc' = "parse"
    /\ UNCHANGED <<side, input, frames, is_receiving_file, worker>>
    /\ UNCHANGED <<regVars, auxVars>>

\* handle_client: one iteration of the inner loop
ServerParse ==
    /\ side = "server" /\ dpc = "parse"
    /\ \E r \in {ServerParseStep(buffer)} :
          /\ buffer' = r.buffer
          /\ frames' = frames \o r.emit
          /\ dpc' = IF r.again THEN "parse" ELSE "recv"
    /\ UNCHANGED <<side, input, pos, is_receiving_file, worker>>
    /\ UNCHANGED <<regVars, auxVars>>

\* TCPReceiver.run: data = recv(4096); in file mode the read goes to
\* file_data_received (and to write_chunk once the worker has connected it),
\* otherwise buffer += data
ClientRecv ==
    /\ side = "client" /\ dpc = "recv"
    /\ \E n \in ReadSizes :
          /\ pos' = pos + n
          /\ IF is_receiving_file
             THEN /\ frames' = frames \o [i \in 1..n |-> FileData(Chunk(n)[i])]
                  /\ worker' = IF worker.state = "connected"
                               THEN [worker EXCEPT !.queued = @ + n]
                               ELSE worker
                  /\ UNCHANGED <<buffer, dpc>>
             ELSE /\ buffer' = buffer \o Chunk(n)
                  /\ dpc' = "parse"
                  /\ UNCHANGED <<frames, worker>>
    /\ UNCHANGED <<side, input, is_receiving_file>>
    /\ UNCHANGED <<regVars, auxVars>>

\* TCPReceiver.run: one iteration of the inner loop, with process_command
ClientParse ==
    /\ side = "client" /\ dpc = "parse"
    /\ \E r \in {ClientParseStep(buffer)} :
          /\ buffer' = r.buffer
          /\ frames' = frames \o r.emit
          /\ dpc' = IF r.stop THEN "stopped" ELSE IF r.again THEN "parse" ELSE "recv"
          /\ is_receiving_file' = (is_receiving_file \/ r.raw)
          /\ worker' = IF r.raw THEN [NoWorker EXCEPT !.state = "asked", !.filesize = r.filesize]
                       ELSE worker
    /\ UNCHANGED <<side, input, pos>>
    /\ UNCHANGED <<regVars, auxVars>>

\* handle_incoming_file: the user accepts (a FileReceiverWorker is started and
\* connects write_chunk) or declines (nothing else happens)
IncomingFileReply ==
    /\ worker.state = "asked"
    /\ \E accept \in BOOLEAN :
          worker' = IF accept THEN [worker EXCEPT !.state = "connected"] ELSE NoWorker
    /\ UNCHANGED <<side, input, pos, buffer, dpc, frames, is_receiving_file>>
    /\ UNCHANGED <<regVars, auxVars>>

\* FileReceiverWorker.write_chunk on the oldest emission not handled yet (the reads
\* being of any sizes, so is its length), and finish once the file is complete
WriteChunk ==
    /\ worker.state = "connected"
    /\ \E len \in 1..worker.queued :
          LET bytes_to_write == Min(len, worker.filesize - worker.bytes_received)
              received == worker.bytes_received + bytes_to_write
          IN IF received >= worker.filesize
             THEN /\ worker' = NoWorker
                  /\ is_receiving_file' = FALSE
             ELSE /\ worker' = [worker EXCEPT !.bytes_received = received,
                                              !.queued = @ - len]
                  /\ UNCHANGED is_receiving_file
    /\ UNCHANGED <<side, input, pos, buffer, dpc, frames>>
    /\ UNCHANGED <<regVars, auxVars>>

NextDemux ==
    \/ ServerRecv \/ ServerParse
    \/ ClientRecv \/ ClientParse
    \/ IncomingFileReply \/ WriteChunk

SpecDemux == InitDemux /\ [][NextDemux]_vars

\* What the loop dispatches when the whole of s arrives in one read.
RECURSIVE ServerParseAll(_)
ServerParseAll(s) ==
    LET r == ServerParseStep(s) IN
    IF r.again THEN r.emit \o ServerParseAll(r.buffer) ELSE r.emit
RECURSIVE ClientParseAll(_)
ClientParseAll(s) ==
    LET r == ClientParseStep(s) IN
    IF r.again /\ ~r.stop THEN r.emit \o ClientParseAll(r.buffer) ELSE r.emit
Delivered == SubSeq(input, 1, pos)

(***************************************************************************)
(* remove_client called directly (the registry's unregister operation),    *)
(* from any registry the server can hold with the lock free.               *)
(***************************************************************************)
Registries ==
    {r \in UNION {[1..n -> [conn : Conns, username : Usernames]] : n \in 0..MaxConns} :
        \A i, j \in 1..Len(r) :
            i # j => (r[i].conn # r[j].conn /\ r[i].username # r[j].username)}
RegistryNames(r) == {r[i].username : i \in 1..Len(r)}
RegistryConns(r) == {r[i].conn : i \in 1..Len(r)}

InitUnregister ==
    /\ clients \in Registries
    /\ username_to_conn =
          [u \in RegistryNames(clients) |->
              clients[CHOOSE i \in 1..Len(clients) : clients[i].username = u].conn]
    /\ lock = Free
    /\ thr = [c \in Conns |-> <<>>]
    /\ sent = [c \in Conns |-> <<>>]
    /\ closed = [c \in Conns |-> FALSE]
    /\ peerClosed = [c \in Conns |-> FALSE]
    /\ joinResult = [c \in Conns |-> IF c \in RegistryConns(clients)
                                     THEN "accepted" ELSE "unconnected"]
    /\ nmsg = [c \in Conns |-> 0]
    /\ DemuxIdle
    /\ AuxIdle

\* Thread t calls remove_client(c).
Unregister(t, c) ==
    /\ thr[t] = <<>>
    /\ thr' = [thr EXCEPT ![t] = <<RemoveClientFrame(c)>>]
    /\ UNCHANGED <<clients, username_to_conn, lock, sent, closed, peerClosed,
                   joinResult, nmsg>>
    /\ UNCHANGED <<dmxVars, auxVars>>

NextUnregister ==
    \E t \in Conns :
        \/ \E c \in Conns : Unregister(t, c)
        \/ RemoveClientAcquire(t)
        \/ RemoveClientStep(t)

SpecUnregister == InitUnregister /\ [][NextUnregister]_vars

FairSpecUnregister ==
    SpecUnregister /\ \A t \in Conns : WF_vars(RemoveClientAcquire(t) \/ RemoveClientStep(t))

(***************************************************************************)
(* The file relay.  Connection SenderConn's handler loop dispatches         *)
(* FILE_INIT, handle_tcp_message starts a handle_file_transfer thread, and  *)
(* that thread and the handler loop both call recv on the sender's socket.  *)
(* A third session chats meanwhile.                                         *)
(***************************************************************************)
\* Largest file size a FILE_INIT of the model announces.
MaxFileSize == 2
\* Number of handle_file_transfer threads a run starts.
MaxRelays == 2
\* handle_file_transfer: chunk_size = min(4096, ...)
RelayChunk == 4096

\* str(n), the way an f-string formats an int.
RECURSIVE PyStrNat(_)
PyStrNat(n) ==
    IF n < 10 THEN <<DigitChars[n + 1]>>
    ELSE PyStrNat(n \div 10) \o <<DigitChars[(n % 10) + 1]>>
PyStr(n) == IF n < 0 THEN <<"-">> \o PyStrNat(0 - n) ELSE PyStrNat(n)

\* f"SYSTEM:User '{target_username}' not found.\n"
SystemNotFound(target) ==
    <<"S", "Y", "S", "T", "E", "M", ":", "U", "s", "e", "r", " ", "'">> \o target
        \o <<"'", " ", "n", "o", "t", " ", "f", "o", "u", "n", "d", ".", NL>>
\* f"SYSTEM:Could not reach '{target_username}' for file transfer.\n"
SystemUnreachable(target) ==
    <<"S", "Y", "S", "T", "E", "M", ":", "C", "o", "u", "l", "d", " ", "n", "o", "t", " ",
      "r", "e", "a", "c", "h", " ", "'">> \o target
        \o <<"'", " ", "f", "o", "r", " ", "f", "i", "l", "e", " ", "t", "r", "a", "n", "s",
             "f", "e", "r", ".", NL>>
\* f"FILE_INCOMING:{sender_username}:{filename}:{filesize}\n"
FileIncoming(sender_username, filename, filesize) ==
    FILE_INCOMING \o <<":">> \o sender_username \o <<":">> \o filename \o <<":">>
        \o PyStr(filesize) \o <<NL>>

\* handle_tcp_message, FILE_INIT: payload.split(':', 2) and int(filesize_str); either
\* can raise ValueError, and then no thread is started.
FileInitArgs(payload) ==
    IF HasThreeParts(payload) /\ PyInt(ThirdPart(payload)).ok
    THEN [ok |-> TRUE,
          target_user |-> Before(payload, ":"),
          filename |-> Before(After(payload, ":"), ":"),
          filesize |-> PyInt(ThirdPart(payload)).value]
    ELSE [ok |-> FALSE, target_user |-> <<>>, filename |-> <<>>, filesize |-> 0]

\* A handle_file_transfer thread at its first statement.  relayed and the three
\* counters after it record what the thread has done: the bytes it wrote to the
\* receiver, where in the receiver's stream FILE_INCOMING and its latest write
\* landed, how many chunks it wrote, and the size of the read it asked for last.
RelayThread(sender_conn, sender_username, args) ==
    [pc |-> "lookup", outcome |-> "running",
     sender_conn |-> sender_conn, sender_username |-> sender_username,
     target_username |-> args.target_user, filename |-> args.filename,
     filesize |-> args.filesize,
     receiver_conn |-> NoConn, bytes_transferred |-> 0,
     chunk_size |-> 0, chunk |-> <<>>,
     relayed |-> <<>>, incoming_at |-> 0, last_at |-> 0, nwrites |-> 0, nread |-> 0]

\* The sessions of the relay runs: the sender, the receiver and a bystander.
SenderConn == 1
ReceiverConn == 2
BystanderConn == 3
SenderName == <<"a">>
ReceiverName == <<"b">>
BystanderName == <<"c">>
\* A username nobody registered.
AbsentName == <<"z">>

\* What the sender writes: FILE_INIT:<target>:f:<size>, the file's bytes, and
\* possibly a PING after them.
FileBytes(n) == [i \in 1..n |-> IF i % 2 = 1 THEN "x" ELSE "y"]
FileInitLine(target, n) ==
    FILE_INIT \o <<":">> \o target \o <<":", "f", ":">> \o PyStr(n) \o <<NL>>
RelaySizes == (0 - 1)..MaxFileSize
RelayInputs ==
    {FileInitLine(target, n) \o FileBytes(n) \o tail :
        target \in {ReceiverName, AbsentName}, n \in RelaySizes, tail \in {<<>>, InPing}}

InitRelay ==
    /\ clients = <<[conn |-> SenderConn, username |-> SenderName],
                   [conn |-> ReceiverConn, username |-> ReceiverName],
                   [conn |-> BystanderConn, username |-> BystanderName]>>
    /\ username_to_conn = [u \in {SenderName, ReceiverName, BystanderName} |->
                              IF u = SenderName THEN SenderConn
                              ELSE IF u = ReceiverName THEN ReceiverConn
                              ELSE BystanderConn]
    /\ lock = Free
    /\ thr = [c \in Conns |-> IF c = BystanderConn
                              THEN <<HandleClientFrame("recv", BystanderName)>>
                              ELSE <<>>]
    /\ sent = [c \in Conns |-> <<>>]
    /\ closed = [c \in Conns |-> FALSE]
    /\ peerClosed = [c \in Conns |-> FALSE]
    /\ joinResult = [c \in Conns |-> IF c \in {SenderConn, ReceiverConn, BystanderConn}
                                     THEN "accepted" ELSE "unconnected"]
    /\ nmsg = [c \in Conns |-> 0]
    /\ side = "server"
    /\ input \in RelayInputs
    /\ pos = 0
    /\ buffer = <<>>
    /\ dpc = "recv"
    /\ frames = <<>>
    /\ is_receiving_file = FALSE
    /\ worker = NoWorker
    /\ AuxIdle

\* The threads handle_tcp_message starts for the frames of one dispatch: one for every
\* FILE_INIT whose payload splits and whose size int() accepts.
RECURSIVE ThreadsFor(_, _)
ThreadsFor(emit, room) ==
    IF emit = <<>> \/ room <= 0 THEN <<>>
    ELSE IF Head(emit).kind = "text" /\ Head(emit).command = FILE_INIT
    THEN LET args == FileInitArgs(Head(emit).payload)
         IN IF args.ok
            THEN <<RelayThread(SenderConn, SenderName, args)>>
                   \o ThreadsFor(Tail(emit), room - 1)
            ELSE ThreadsFor(Tail(emit), room)
    ELSE ThreadsFor(Tail(emit), room)
StartedBy(emit) == ThreadsFor(emit, MaxRelays - Len(relay))

\* handle_client on the sender's connection: one iteration of the inner loop, and
\* handle_tcp_message's FILE_INIT branch for the frame it dispatches.
SenderParse ==
    /\ side = "server" /\ dpc = "parse"
    /\ \E r \in {ServerParseStep(buffer)} : \E started \in {StartedBy(r.emit)} :
          /\ buffer' = r.buffer
          /\ frames' = frames \o r.emit
          /\ dpc' = IF r.again THEN "parse" ELSE "recv"
          /\ relay' = relay \o started
    /\ UNCHANGED <<side, input, pos, is_receiving_file, worker>>
    /\ UNCHANGED regVars
    /\ UNCHANGED <<dispatched, client_udp_addr, udp, udp_sent, cliVars>>

\* A lookup that finds somebody under every name.
LookupAnybody(target) ==
    IF target \in DOMAIN username_to_conn THEN username_to_conn[target] ELSE ReceiverConn
\* self.username_to_conn.get(target_username)
Lookup(target) ==
    IF target \in DOMAIN username_to_conn THEN username_to_conn[target] ELSE NoConn

SetRelay(i, r) == [relay EXCEPT ![i] = r]
Ended(r, outcome) == [r EXCEPT !.pc = "done", !.outcome = outcome]
\* `while bytes_transferred < filesize:` and the test after the loop
LoopOrEnd(r) ==
    IF r.bytes_transferred < r.filesize THEN [r EXCEPT !.pc = "recv"]
    ELSE Ended(r, IF r.bytes_transferred = r.filesize THEN "success" ELSE "incomplete")

\* handle_file_transfer: resolve the target; if there is none, tell the sender and
\* return.
RelayLookup(i) ==
    /\ i \in 1..Len(relay) /\ relay[i].pc = "lookup"
    /\ LET r == relay[i]
           receiver_conn == Lookup(r.target_username)
       IN IF receiver_conn = NoConn
          THEN \E ok \in WriteOutcomes(r.sender_conn) :
                 /\ sent' = Written(r.sender_conn, SystemNotFound(r.target_username), ok)
                 /\ relay' = SetRelay(i, Ended(r, "not_found"))
          ELSE /\ relay' = SetRelay(i, [r EXCEPT !.pc = "notify",
                                                 !.receiver_conn = receiver_conn])
               /\ UNCHANGED sent
    /\ UNCHANGED <<clients, username_to_conn, lock, thr, closed, peerClosed, joinResult, nmsg>>
    /\ UNCHANGED dmxVars
    /\ UNCHANGED <<dispatched, client_udp_addr, udp, udp_sent, cliVars>>

\* handle_file_transfer: send FILE_INCOMING to the receiver; if that raises, tell the
\* sender and return.
RelayNotify(i) ==
    /\ i \in 1..Len(relay) /\ relay[i].pc = "notify"
    /\ LET r == relay[i] IN
       \E ok \in WriteOutcomes(r.receiver_conn) :
          IF ok
          THEN /\ sent' = Written(r.receiver_conn,
                                  FileIncoming(r.sender_username, r.filename, r.filesize), ok)
               /\ relay' = SetRelay(i, LoopOrEnd(
                              [r EXCEPT !.incoming_at = Len(sent[r.receiver_conn]) + 1,
                                        !.last_at = Len(sent[r.receiver_conn]) + 1]))
          ELSE \E told \in WriteOutcomes(r.sender_conn) :
                 /\ sent' = Written(r.sender_conn, SystemUnreachable(r.target_username), told)
                 /\ relay' = SetRelay(i, Ended(r, "unreachable"))
    /\ UNCHANGED <<clients, username_to_conn, lock, thr, closed, peerClosed, joinResult, nmsg>>
    /\ UNCHANGED dmxVars
    /\ UNCHANGED <<dispatched, client_udp_addr, udp, udp_sent, cliVars>>

\* handle_file_transfer: chunk_size = min(4096, filesize - bytes_transferred);
\* chunk = sender_conn.recv(chunk_size); an empty chunk ends the loop.
RelayRecv(i) ==
    /\ i \in 1..Len(relay) /\ relay[i].pc = "recv"
    /\ LET r == relay[i]
           chunk_size == Min(RelayChunk, r.filesize - r.bytes_transferred)
       IN \/ \E n \in 1..Min(chunk_size, Len(input) - pos) :
                /\ pos' = pos + n
                /\ relay' = SetRelay(i, [r EXCEPT !.pc = "write", !.chunk_size = chunk_size,
                                                  !.chunk = Chunk(n), !.nread = @ + 1])
          \/ /\ pos = Len(input) /\ peerClosed[r.sender_conn]
             /\ relay' = SetRelay(i, Ended([r EXCEPT !.chunk_size = chunk_size], "disconnected"))
             /\ UNCHANGED pos
    /\ UNCHANGED <<side, input, buffer, dpc, frames, is_receiving_file, worker>>
    /\ UNCHANGED regVars
    /\ UNCHANGED <<dispatched, client_udp_addr, udp, udp_sent, cliVars>>

\* handle_file_transfer: receiver_conn.sendall(chunk); bytes_transferred += len(chunk)
\* (a sendall that raises is taken to have delivered nothing)
RelayWrite(i) ==
    /\ i \in 1..Len(relay) /\ relay[i].pc = "write"
    /\ LET r == relay[i] IN
       \E ok \in WriteOutcomes(r.receiver_conn) :
          /\ sent' = Written(r.receiver_conn, r.chunk, ok)
          /\ relay' = SetRelay(i,
                IF ok
                THEN LoopOrEnd([r EXCEPT !.bytes_transferred = @ + Len(r.chunk),
                                         !.relayed = @ \o r.chunk,
                                         !.chunk = <<>>,
                                         !.last_at = Len(sent[r.receiver_conn]) + 1,
                                         !.nwrites = @ + 1])
                ELSE Ended(r, "error"))
    /\ UNCHANGED <<clients, username_to_conn, lock, thr, closed, peerClosed, joinResult, nmsg>>
    /\ UNCHANGED dmxVars
    /\ UNCHANGED <<dispatched, client_udp_addr, udp, udp_sent, cliVars>>

RelayStep(i) == RelayLookup(i) \/ RelayNotify(i) \/ RelayRecv(i) \/ RelayWrite(i)

NextRelay ==
    \/ ServerRecv
    \/ SenderParse
    \/ \E i \in 1..MaxRelays : RelayLookup(i)
    \/ \E i \in 1..MaxRelays : RelayNotify(i)
    \/ \E i \in 1..MaxRelays : RelayRecv(i)
    \/ \E i \in 1..MaxRelays : RelayWrite(i)
    \/ \E c \in Conns : PeerClose(c)
    \/ Recv(BystanderConn) \/ Finally(BystanderConn)
    \/ BroadcastAcquire(BystanderConn) \/ BroadcastSend(BystanderConn)
    \/ BroadcastReturn(BystanderConn)
    \/ RemoveClientAcquire(BystanderConn) \/ RemoveClientStep(BystanderConn)

SpecRelay == InitRelay /\ [][NextRelay]_vars

(***************************************************************************)
(* The command dispatcher: handle_client dispatches one complete frame to   *)
(* handle_tcp_message or handle_tcp_binary.  Three sessions are registered; *)
(* two of them send commands.                                               *)
(***************************************************************************)
\* f"CHAT:{username}:{payload}\n"
ChatLine(username, payload) == CHAT \o <<":">> \o username \o <<":">> \o payload \o <<NL>>
\* A pong that echoes nothing.
PongLineEmpty(payload) == PONG \o <<":", NL>>
\* f"PONG:{payload}\n"
PongLine(payload) == PONG \o <<":">> \o payload \o <<NL>>
\* f"SCRN_START:{username}\n", f"SCRN_STOP:{username}\n"
ScrnStartLine(username) == SCRN_START \o <<":">> \o username \o <<NL>>
ScrnStopLine(username) == SCRN_STOP \o <<":">> \o username \o <<NL>>
\* f"SCRN:{username}:{len(data)}:".encode('utf-8') + data
ScrnRelay(username, data) ==
    SCRN \o <<":">> \o username \o <<":">> \o PyStr(Len(data)) \o <<":">> \o data

\* A dispatcher that tags screen-share signals with the name the payload carries.
HandleTcpMessageTrusting(username, command, payload) ==
    IF command = MSG THEN [do |-> "broadcast", message |-> ChatLine(username, payload)]
    ELSE IF command = PING THEN [do |-> "reply", message |-> PongLine(payload)]
    ELSE IF command = SCRN_START THEN [do |-> "broadcast", message |-> ScrnStartLine(payload)]
    ELSE IF command = SCRN_STOP THEN [do |-> "broadcast", message |-> ScrnStopLine(payload)]
    ELSE [do |-> "none", message |-> <<>>]
\* handle_tcp_message: what it does with a text command (FILE_INIT, which starts a
\* relay thread, is modelled with the file relay).
HandleTcpMessage(username, command, payload) ==
    IF command = MSG THEN [do |-> "broadcast", message |-> ChatLine(username, payload)]
    ELSE IF command = PING THEN [do |-> "reply", message |-> PongLine(payload)]
    ELSE IF command = SCRN_START THEN [do |-> "broadcast", message |-> ScrnStartLine(username)]
    ELSE IF command = SCRN_STOP THEN [do |-> "broadcast", message |-> ScrnStopLine(username)]
    ELSE [do |-> "none", message |-> <<>>]

\* A handle_tcp_binary call at its `with self.lock:`.
BinaryFrame(conn, username, data) ==
    [fn |-> "handle_tcp_binary", pc |-> "lock", conn |-> conn, username |-> username,
     data |-> data, queue |-> <<>>]

\* The frames a client sends in these runs, as handle_client's loop dispatches them:
\* the command and its decoded payload, or SCRN and the subframe's bytes.
DispatchFrames ==
    {[command |-> MSG, payload |-> <<"h", "i">>],
     [command |-> MSG, payload |-> <<"a", ":", "b">>],
     [command |-> PING, payload |-> <<"7">>],
     [command |-> SCRN_START, payload |-> SenderName],
     [command |-> SCRN_START, payload |-> AbsentName],
     [command |-> SCRN_STOP, payload |-> ReceiverName],
     [command |-> SCRN, payload |-> <<>>],
     [command |-> SCRN, payload |-> <<":", NL>>]}

\* The connections whose clients send commands; the third only listens.
Dispatchers == {SenderConn, ReceiverConn}
Registered == {SenderConn, ReceiverConn, BystanderConn}
NameOfConn(c) ==
    IF c = SenderConn THEN SenderName
    ELSE IF c = ReceiverConn THEN ReceiverName ELSE BystanderName

InitDispatch ==
    /\ clients = [i \in 1..3 |->
                    [conn |-> <<SenderConn, ReceiverConn, BystanderConn>>[i],
                     username |-> NameOfConn(<<SenderConn, ReceiverConn, BystanderConn>>[i])]]
    /\ username_to_conn = [u \in {NameOfConn(c) : c \in Registered} |->
                              CHOOSE c \in Registered : NameOfConn(c) = u]
    /\ lock = Free
    /\ thr = [c \in Conns |-> IF c \in Registered
                              THEN <<HandleClientFrame("recv", NameOfConn(c))>>
                              ELSE <<>>]
    /\ sent = [c \in Conns |-> <<>>]
    /\ closed = [c \in Conns |-> FALSE]
    /\ peerClosed = [c \in Conns |-> FALSE]
    /\ joinResult = [c \in Conns |-> IF c \in Registered THEN "accepted" ELSE "unconnected"]
    /\ nmsg = [c \in Conns |-> 0]
    /\ DemuxIdle
    /\ AuxIdle

\* handle_client, main loop: one complete frame is dispatched.  A text command goes
\* to handle_tcp_message; a SCRN subframe to handle_tcp_binary.  A PONG whose write
\* raises ends the loop.
Dispatch(t) ==
    /\ t \in Dispatchers
    /\ At(t, "handle_client", "recv")
    /\ ~peerClosed[t] /\ ~closed[t]
    /\ nmsg[t] < MaxMsgs
    /\ nmsg' = [nmsg EXCEPT ![t] = @ + 1]
    /\ \E f \in DispatchFrames :
          /\ dispatched' = [dispatched EXCEPT ![t] = f]
          /\ IF f.command = SCRN
             THEN /\ thr' = Call(t, Top(t), BinaryFrame(t, Top(t).username, f.payload))
                  /\ UNCHANGED sent
             ELSE LET e == HandleTcpMessage(Top(t).username, f.command, f.payload) IN
                  CASE e.do = "broadcast" ->
                         /\ thr' = Call(t, Top(t), BroadcastFrame(e.message, t))
                         /\ UNCHANGED sent
                    [] e.do = "reply" ->
                         \E ok \in WriteOutcomes(t) :
                            /\ sent' = Written(t, e.message, ok)
                            /\ thr' = IF ok THEN thr
                                      ELSE SetTop(t, [Top(t) EXCEPT !.pc = "finally"])
                    [] OTHER -> UNCHANGED <<thr, sent>>
    /\ UNCHANGED <<clients, username_to_conn, lock, closed, peerClosed, joinResult>>
    /\ UNCHANGED dmxVars
    /\ UNCHANGED <<relay, client_udp_addr, udp, udp_sent, cliVars>>

\* handle_tcp_binary, `with self.lock:` and the snapshot list(self.clients.keys()).
BinaryAcquire(t) ==
    /\ At(t, "handle_tcp_binary", "lock")
    /\ CanAcquire(t)
    /\ lock' = t
    /\ thr' = SetTop(t, [Top(t) EXCEPT !.pc = "loop", !.queue = ClientKeys])
    /\ UNCHANGED <<clients, username_to_conn, sent, closed, peerClosed, joinResult, nmsg>>
    /\ UNCHANGED <<dmxVars, auxVars>>

\* handle_tcp_binary, one iteration of the loop: skip the presenter, write header and
\* data to a peer, or call remove_client on the peer whose write raised.
BinarySend(t) ==
    /\ At(t, "handle_tcp_binary", "loop")
    /\ Top(t).queue # <<>>
    /\ LET c == Head(Top(t).queue)
           rest == [Top(t) EXCEPT !.queue = Tail(@)]
       IN IF c = Top(t).conn
          THEN /\ thr' = SetTop(t, rest)
               /\ UNCHANGED sent
          ELSE \E ok \in WriteOutcomes(c) :
                 /\ sent' = Written(c, ScrnRelay(Top(t).username, Top(t).data), ok)
                 /\ thr' = IF ok THEN SetTop(t, rest)
                           ELSE Call(t, rest, RemoveClientFrame(c))
    /\ UNCHANGED <<clients, username_to_conn, lock, closed, peerClosed, joinResult, nmsg>>
    /\ UNCHANGED <<dmxVars, auxVars>>

\* handle_tcp_binary, end of the loop: the lock is released and the call returns.
BinaryReturn(t) ==
    /\ At(t, "handle_tcp_binary", "loop")
    /\ Top(t).queue = <<>>
    /\ lock' = Free
    /\ thr' = Return(t)
    /\ UNCHANGED <<clients, username_to_conn, sent, closed, peerClosed, joinResult, nmsg>>
    /\ UNCHANGED <<dmxVars, auxVars>>

\* handle_client's recv on a connection that is closed: the loop ends.
RecvClosed(t) == (peerClosed[t] \/ closed[t]) /\ Recv(t)

\* A step a handler thread takes without waiting for its client.
DispatchStep(t) ==
    \/ BroadcastAcquire(t) \/ BroadcastSend(t) \/ BroadcastReturn(t)
    \/ BinaryAcquire(t) \/ BinarySend(t) \/ BinaryReturn(t)
    \/ RecvClosed(t) \/ Finally(t)
    \/ RemoveClientAcquire(t) \/ RemoveClientStep(t)

NextDispatch ==
    \E t \in Conns :
        \/ Dispatch(t)
        \/ PeerClose(t)
        \/ BroadcastAcquire(t) \/ BroadcastSend(t) \/ BroadcastReturn(t)
        \/ BinaryAcquire(t) \/ BinarySend(t) \/ BinaryReturn(t)
        \/ RecvClosed(t) \/ Finally(t)
        \/ RemoveClientAcquire(t) \/ RemoveClientStep(t)

SpecDispatch == InitDispatch /\ [][NextDispatch]_vars

\* The scheduler runs every handler thread that can take a step; clients need not
\* send anything.
FairSpecDispatch == SpecDispatch /\ \A t \in Conns : WF_vars(DispatchStep(t))

(***************************************************************************)
(* The UDP relay: udp_listener re-broadcasts every datagram it receives to   *)
(* the UDP address each session declared in its JOIN.                       *)
(***************************************************************************)
\* Number of datagrams the listener receives in a run.
MaxDatagrams == 2

\* (addr[0], client_udp_port): the host of the TCP peer and the port its JOIN declared.
\* int() accepts any integer as the port.
Addr(host, port) == <<host, port>>
JoinPorts == {5000, 5001, 70000}
SessionAddrs == {Addr("h", p) : p \in JoinPorts}
\* The addresses datagrams arrive from: those of sessions, and one of no session.
SourceAddrs == {Addr("h", 5000), Addr("h", 5001), Addr("h", 6000)}
Datagrams == {<<"v">>, <<"x", "y">>}

\* The listener thread, as a holder of the registry lock.
UdpThread == MaxConns + 1

\* sock.sendto(data, client_udp_addr): raises OverflowError for a port outside
\* 0..65535, and may raise OSError for any destination.
SendtoOutcomes(to) == {ok \in BOOLEAN : ok => to[2] \in 0..65535}

\* The listener thread at `data, addr = sock.recvfrom(65536)`.
UdpListening ==
    [pc |-> "recvfrom", data |-> NoDatagram, addr |-> NoAddr, queue |-> <<>>,
     running |-> TRUE, socket_closed |-> FALSE, stop |-> "idle",
     nrecv |-> 0, log |-> <<>>, failed |-> {}, covered |-> {}]

\* The registry holding the sessions of the connections in S, in connection order.
RegistryOf(S) ==
    LET order == SelectSeq(<<SenderConn, ReceiverConn, BystanderConn>>, LAMBDA c : c \in S)
    IN [i \in 1..Len(order) |-> [conn |-> order[i], username |-> NameOfConn(order[i])]]

InitUdp ==
    /\ \E S \in SUBSET Registered :
          /\ clients = RegistryOf(S)
          /\ username_to_conn = [u \in {NameOfConn(c) : c \in S} |->
                                    CHOOSE c \in S : NameOfConn(c) = u]
          /\ thr = [c \in Conns |-> IF c \in S
                                    THEN <<HandleClientFrame("recv", NameOfConn(c))>>
                                    ELSE <<>>]
          /\ joinResult = [c \in Conns |-> IF c \in S THEN "accepted" ELSE "unconnected"]
          /\ \E a \in [S -> SessionAddrs] :
                client_udp_addr = [c \in Conns |-> IF c \in S THEN a[c] ELSE NoAddr]
    /\ lock = Free
    /\ sent = [c \in Conns |-> <<>>]
    /\ closed = [c \in Conns |-> FALSE]
    /\ peerClosed = [c \in Conns |-> FALSE]
    /\ nmsg = [c \in Conns |-> 0]
    /\ DemuxIdle
    /\ relay = <<>>
    /\ dispatched = [c \in Conns |-> NoCommand]
    /\ udp = UdpListening
    /\ udp_sent = <<>>
    /\ ClientIdle

\* `for _, (_, client_udp_addr) in self.clients.items()`: the addresses in registry order.
RegistryAddrs == [i \in 1..Len(clients) |-> client_udp_addr[clients[i].conn]]

\* The listener leaves its loop: `break` while the server runs, the `while` test
\* after stop().
UdpEnded(u) == [u EXCEPT !.pc = "stopped"]

\* udp_listener, `data, addr = sock.recvfrom(65536)`: a datagram arrives, or the
\* socket stop() closed makes recvfrom raise.
UdpRecvfrom ==
    /\ udp.pc = "recvfrom"
    /\ \/ /\ ~udp.socket_closed
          /\ udp.nrecv < MaxDatagrams
          /\ \E data \in Datagrams : \E addr \in SourceAddrs :
                udp' = [udp EXCEPT !.pc = "lock", !.data = data, !.addr = addr,
                                   !.nrecv = @ + 1, !.failed = {}, !.covered = {},
                                   !.log = Append(@, [data |-> data, addr |-> addr])]
       \/ /\ udp.socket_closed
          /\ udp' = UdpEnded(udp)
    /\ UNCHANGED <<regVars, dmxVars, relay, dispatched, client_udp_addr, udp_sent, cliVars>>

\* A listener that starts its loop over the sessions without taking the lock.
UdpAcquireNoLock ==
    /\ udp.pc = "lock"
    /\ udp' = [udp EXCEPT !.pc = "loop", !.queue = RegistryAddrs]
    /\ UNCHANGED <<regVars, dmxVars, relay, dispatched, client_udp_addr, udp_sent, cliVars>>

\* udp_listener, `with self.lock:` and the start of the loop over self.clients.items().
UdpAcquire ==
    /\ udp.pc = "lock"
    /\ lock = Free
    /\ lock' = UdpThread
    /\ udp' = [udp EXCEPT !.pc = "loop", !.queue = RegistryAddrs]
    /\ UNCHANGED <<clients, username_to_conn, thr, sent, closed, peerClosed, joinResult, nmsg>>
    /\ UNCHANGED <<dmxVars, relay, dispatched, client_udp_addr, udp_sent, cliVars>>

\* udp_listener, one iteration: an address equal to the datagram's source is skipped;
\* otherwise sendto; a sendto that raises leaves the `with` (the lock is released)
\* and reaches `except Exception: if self.running: break`.
UdpSend ==
    /\ udp.pc = "loop"
    /\ udp.queue # <<>>
    /\ LET to == Head(udp.queue)
           rest == [udp EXCEPT !.queue = Tail(@), !.covered = @ \cup {to}]
       IN IF to = udp.addr
          THEN /\ udp' = rest
               /\ UNCHANGED <<lock, udp_sent>>
          ELSE \E ok \in SendtoOutcomes(to) :
                 IF ok
                 THEN /\ udp_sent' = Append(udp_sent,
                                            [data |-> udp.data, to |-> to, n |-> udp.nrecv])
                      /\ udp' = rest
                      /\ UNCHANGED lock
                 ELSE /\ udp' = UdpEnded([rest EXCEPT !.failed = @ \cup {to}])
                      /\ lock' = Free
                      /\ UNCHANGED udp_sent
    /\ UNCHANGED <<clients, username_to_conn, thr, sent, closed, peerClosed, joinResult, nmsg>>
    /\ UNCHANGED <<dmxVars, relay, dispatched, client_udp_addr, cliVars>>

\* udp_listener, end of the loop over the sessions: the lock is released and the
\* `while self.running:` test is made.
UdpRelease ==
    /\ udp.pc = "loop"
    /\ udp.queue = <<>>
    /\ lock' = Free
    /\ udp' = IF udp.running THEN [udp EXCEPT !.pc = "recvfrom"] ELSE UdpEnded(udp)
    /\ UNCHANGED <<clients, username_to_conn, thr, sent, closed, peerClosed, joinResult, nmsg>>
    /\ UNCHANGED <<dmxVars, relay, dispatched, client_udp_addr, udp_sent, cliVars>>

\* stop(), `self.running = False`.
StopBegin ==
    /\ udp.stop = "idle"
    /\ udp' = [udp EXCEPT !.running = FALSE, !.stop = "lock"]
    /\ UNCHANGED <<regVars, dmxVars, relay, dispatched, client_udp_addr, udp_sent, cliVars>>

\* stop(), `with self.lock:` closing every session's connection, then the sockets.
StopClose ==
    /\ udp.stop = "lock"
    /\ lock = Free
    /\ closed' = [c \in Conns |-> closed[c] \/ c \in ClientConns]
    /\ udp' = [udp EXCEPT !.socket_closed = TRUE, !.stop = "done"]
    /\ UNCHANGED <<clients, username_to_conn, lock, thr, sent, peerClosed, joinResult, nmsg>>
    /\ UNCHANGED <<dmxVars, relay, dispatched, client_udp_addr, udp_sent, cliVars>>

\* The listener, stop(), and the handler thread of the one session whose client may
\* disconnect during the run.
NextUdp ==
    \/ UdpRecvfrom
    \/ UdpAcquire
    \/ UdpSend
    \/ UdpRelease
    \/ StopBegin
    \/ StopClose
    \/ PeerClose(BystanderConn)
    \/ RecvClosed(BystanderConn)
    \/ Finally(BystanderConn)
    \/ RemoveClientAcquire(BystanderConn)
    \/ RemoveClientStep(BystanderConn)

SpecUdp == InitUdp /\ [][NextUdp]_vars

(***************************************************************************)
(* The client's quality estimator: MediaReceiver.run keeps, per source      *)
(* username, the last sequence number, the packets counted lost and the     *)
(* packets received, and emits the loss percentage with every video packet. *)
(***************************************************************************)
\* Number of video packets the receiver takes in a run, and the largest sequence
\* number a packet carries.
MaxPackets == 5
MaxSeq == 6

MediaNames == {SenderName, ReceiverName}
\* b"v:<username>:<seq>:<payload>", as the video sender builds it.
VideoPacket(username, seq_num) ==
    <<"v", ":">> \o username \o <<":">> \o PyStr(seq_num) \o <<":", "p", ":", "q">>
\* Datagrams that are no video packet or that raise while they are taken apart.
OtherPackets ==
    {<<"a", ":", "b", ":", "p">>,
     <<"v", ":", "a", ":", "x", ":", "p">>,
     <<"v", ":", "a", ":", "1">>,
     <<"v", ":", BadByte, ":", "1", ":", "p">>}

\* data.split(b':', 3), username_bytes.decode('utf-8') and int(seq_num_bytes): ok is
\* FALSE when the unpacking, the decoding or int() raises.
SplitVideo(data) ==
    LET r1 == After(data, ":")
        r2 == After(r1, ":")
        three == Contains(data, ":") /\ Contains(r1, ":") /\ Contains(r2, ":")
    IN IF three /\ DecodeOk(Before(r1, ":")) /\ PyInt(Before(r2, ":")).ok
       THEN [ok |-> TRUE, username |-> Before(r1, ":"),
             seq_num |-> PyInt(Before(r2, ":")).value]
       ELSE [ok |-> FALSE, username |-> <<>>, seq_num |-> 0]

\* An entry that starts every source at sequence number 0.
StatsFirstFromZero(seq_num) == [last_seq |-> 0 - 1, lost |-> 0, total |-> 0]
\* self.metrics[username] = {'last_seq': seq_num - 1, 'lost': 0, 'total': 0, ...}
StatsFirst(seq_num) == [last_seq |-> seq_num - 1, lost |-> 0, total |-> 0]
\* An update that counts a gap in either direction as loss.
StatsAfterAbsolute(stats, seq_num) ==
    LET lost_count == seq_num - stats.last_seq - 1
    IN [last_seq |-> seq_num,
        lost |-> IF lost_count > 0 THEN stats.lost + lost_count
                 ELSE stats.lost + (0 - lost_count),
        total |-> stats.total + 1]
\* stats['total'] += 1; lost_count = seq_num - stats['last_seq'] - 1;
\* if lost_count > 0: stats['lost'] += lost_count; stats['last_seq'] = seq_num
StatsAfter(stats, seq_num) ==
    LET lost_count == seq_num - stats.last_seq - 1
    IN [last_seq |-> seq_num,
        lost |-> IF lost_count > 0 THEN stats.lost + lost_count ELSE stats.lost,
        total |-> stats.total + 1]
\* int((stats['lost'] / stats['total']) * 100 if stats['total'] > 0 else 0): the float
\* product truncated, which is the integer quotient for the counts of these runs.
LossPct(stats) == IF stats.total > 0 THEN (stats.lost * 100) \div stats.total ELSE 0

InitMedia ==
    /\ clients = <<>>
    /\ username_to_conn = <<>>
    /\ lock = Free
    /\ thr = [c \in Conns |-> <<>>]
    /\ sent = [c \in Conns |-> <<>>]
    /\ closed = [c \in Conns |-> FALSE]
    /\ peerClosed = [c \in Conns |-> FALSE]
    /\ joinResult = [c \in Conns |-> "unconnected"]
    /\ nmsg = [c \in Conns |-> 0]
    /\ DemuxIdle
    /\ relay = <<>>
    /\ dispatched = [c \in Conns |-> NoCommand]
    /\ client_udp_addr = [c \in Conns |-> NoAddr]
    /\ udp = UdpIdleThread
    /\ udp_sent = <<>>
    /\ media = [MediaIdle EXCEPT !.pc = "recvfrom"]
    /\ csend = CsendIdle

\* MediaReceiver.run, one video packet: the entry of its username is created if
\* absent, then updated, and the loss percentage is emitted.
MediaVideo ==
    /\ media.pc = "recvfrom"
    /\ Len(media.log) < MaxPackets
    /\ \E username \in MediaNames : \E seq_num \in 0..MaxSeq :
       \E v \in {SplitVideo(VideoPacket(username, seq_num))} :
       \E stats \in {IF v.username \in DOMAIN media.metrics
                     THEN media.metrics[v.username]
                     ELSE StatsFirst(v.seq_num)} :
       \E after \in {StatsAfter(stats, v.seq_num)} :
          /\ v.ok
          /\ media' = [media EXCEPT
                !.metrics = MapPut(@, v.username, after),
                !.emitted = MapPut(@, v.username, LossPct(after)),
                !.log = Append(@, [username |-> username, seq_num |-> seq_num])]
    /\ UNCHANGED <<regVars, dmxVars, relay, dispatched, client_udp_addr, udp, udp_sent, csend>>

\* MediaReceiver.run, a datagram that is audio or that raises before the metrics
\* are touched: `except Exception: continue`.
MediaOther ==
    /\ media.pc = "recvfrom"
    /\ \E data \in OtherPackets :
          \/ data[1] = "a"
          \/ data[1] = "v" /\ ~SplitVideo(data).ok
    /\ UNCHANGED vars

NextMedia == MediaVideo \/ MediaOther

SpecMedia == InitMedia /\ [][NextMedia]_vars

(***************************************************************************)
(* One file transfer to a registered receiver, with the receiver's handler  *)
(* thread: the sender writes the FILE_INIT line and exactly the announced    *)
(* bytes; either client may close its connection at any moment.             *)
(***************************************************************************)
TransferInputs == {FileInitLine(ReceiverName, n) \o FileBytes(n) : n \in 0..MaxFileSize}

InitTransfer ==
    /\ clients = <<[conn |-> SenderConn, username |-> SenderName],
                   [conn |-> ReceiverConn, username |-> ReceiverName],
                   [conn |-> BystanderConn, username |-> BystanderName]>>
    /\ username_to_conn = [u \in {SenderName, ReceiverName, BystanderName} |->
                              IF u = SenderName THEN SenderConn
                              ELSE IF u = ReceiverName THEN ReceiverConn
                              ELSE BystanderConn]
    /\ lock = Free
    /\ thr = [c \in Conns |-> IF c = ReceiverConn
                              THEN <<HandleClientFrame("recv", ReceiverName)>>
                              ELSE <<>>]
    /\ sent = [c \in Conns |-> <<>>]
    /\ closed = [c \in Conns |-> FALSE]
    /\ peerClosed = [c \in Conns |-> FALSE]
    /\ joinResult = [c \in Conns |-> IF c \in {SenderConn, ReceiverConn, BystanderConn}
                                     THEN "accepted" ELSE "unconnected"]
    /\ nmsg = [c \in Conns |-> 0]
    /\ side = "server"
    /\ input \in TransferInputs
    /\ pos = 0
    /\ buffer = <<>>
    /\ dpc = "recv"
    /\ frames = <<>>
    /\ is_receiving_file = FALSE
    /\ worker = NoWorker
    /\ AuxIdle

\* What the server does without waiting for a client: the sender's handler, the
\* relay threads, and the receiver's handler once its connection is closed.
TransferStep ==
    \/ ServerRecv
    \/ SenderParse
    \/ \E i \in 1..MaxRelays : RelayStep(i)
    \/ RecvClosed(ReceiverConn) \/ Finally(ReceiverConn)
    \/ RemoveClientAcquire(ReceiverConn) \/ RemoveClientStep(ReceiverConn)

NextTransfer ==
    \/ ServerRecv
    \/ SenderParse
    \/ \E i \in 1..MaxRelays : RelayLookup(i)
    \/ \E i \in 1..MaxRelays : RelayNotify(i)
    \/ \E i \in 1..MaxRelays : RelayRecv(i)
    \/ \E i \in 1..MaxRelays : RelayWrite(i)
    \/ PeerClose(SenderConn)
    \/ PeerClose(ReceiverConn)
    \/ RecvClosed(ReceiverConn)
    \/ Finally(ReceiverConn)
    \/ RemoveClientAcquire(ReceiverConn)
    \/ RemoveClientStep(ReceiverConn)

SpecTransfer == InitTransfer /\ [][NextTransfer]_vars

\* The server's threads keep running while any of them can take a step (no thread
\* loops for ever, so each one that can step eventually does); the clients need do
\* nothing.
FairSpecTransfer == SpecTransfer /\ WF_vars(TransferStep)

(***************************************************************************)
(* Claims.                                                                 *)
(***************************************************************************)
Range(f) == {f[x] : x \in DOMAIN f}
Count(m, s) == Cardinality({i \in 1..Len(s) : s[i] = m})
NoDisconnects == \A c \in Conns : ~peerClosed[c]
Accepted == {c \in Conns : joinResult[c] = "accepted"}
Stepped(t) == thr'[t] # thr[t]

\* C1: with no disconnects, under every interleaving of JOINs on distinct
\* connections the registry holds exactly the accepted JOINs; a JOIN whose username
\* is not live is accepted, and one whose username is live is rejected and leaves
\* both maps unchanged.
C1_RegistrySizeIsAcceptedJoins ==
    /\ [](NoDisconnects =>
            /\ Len(clients) = Cardinality(Accepted)
            /\ ClientConns = Accepted
            /\ (lock = Free => Cardinality(DOMAIN username_to_conn) = Cardinality(Accepted)))
    /\ [][\A t \in Conns :
            (At(t, "handle_client", "join_check") /\ Stepped(t)) =>
                IF Top(t).username \in DOMAIN username_to_conn
                THEN /\ joinResult'[t] = "rejected"
                     /\ clients' = clients
                     /\ username_to_conn' = username_to_conn
                ELSE /\ joinResult'[t] = "accepted"
                     /\ t \in ClientConns'
                     /\ Len(clients') = Len(clients) + 1]_vars

C1_Witness ==
    /\ NoDisconnects
    /\ Cardinality(Accepted) = 2
    /\ \E c \in Conns : joinResult[c] = "rejected"
    /\ lock = Free

\* The two maps describe the same sessions, one username per connection.
RegistryConsistent ==
    /\ \A i \in 1..Len(clients) :
          /\ clients[i].username \in DOMAIN username_to_conn
          /\ username_to_conn[clients[i].username] = clients[i].conn
    /\ \A u \in DOMAIN username_to_conn :
          \E i \in 1..Len(clients) :
              clients[i].conn = username_to_conn[u] /\ clients[i].username = u
    /\ \A i, j \in 1..Len(clients) :
          i # j => (clients[i].username # clients[j].username
                    /\ clients[i].conn # clients[j].conn)

\* C2: whenever no thread holds the registry lock, clients and username_to_conn
\* describe the same sessions and no two live connections share a username.
C2_RegistryInvariant == lock = Free => RegistryConsistent

C2_Witness ==
    /\ lock = Free
    /\ Len(clients) = 2
    /\ DOMAIN username_to_conn = Usernames
    /\ \E c \in Conns : At(c, "handle_client", "recv")

\* C3: when a registered connection closes, every other live session is eventually
\* sent USER_LEFT:<username> for it, and is sent it exactly once.
C3_UserLeftEventuallySentOnce ==
    /\ \A c, d \in Conns : \A u \in Usernames :
          (c # d) =>
            ((/\ At(c, "handle_client", "finally")
              /\ c \in ClientConns /\ UsernameOf(c) = u
              /\ d \in ClientConns /\ ~peerClosed[d])
             ~> (Count(UserLeft(u), sent[d]) = 1 \/ peerClosed[d] \/ d \notin ClientConns))
    /\ [](\A d \in Conns : \A u \in Usernames : Count(UserLeft(u), sent[d]) <= 1)

\* C4: after one client has disconnected, a later MSG from another registered client
\* is still eventually broadcast as CHAT (its broadcast completes), and a later JOIN
\* is still eventually decided.
C4_FailuresAreIsolated ==
    \A c \in Conns :
        /\ ((/\ \E d \in Conns \ {c} : peerClosed[d]
             /\ ~peerClosed[c]
             /\ At(c, "broadcast", "lock")
             /\ Top(c).message[1] = "CHAT")
            ~> (peerClosed[c] \/ At(c, "handle_client", "recv")))
        /\ ((/\ \E d \in Conns \ {c} : peerClosed[d]
             /\ ~peerClosed[c]
             /\ At(c, "handle_client", "join_lock"))
            ~> (peerClosed[c] \/ joinResult[c] \in {"accepted", "rejected"}))

\* Thread t is in broadcast's except clause, calling remove_client(p).
WriteFailedTo(t, p) ==
    /\ Len(thr[t]) >= 2
    /\ Top(t).fn = "remove_client" /\ Top(t).conn = p
    /\ thr[t][Len(thr[t]) - 1].fn = "broadcast"
InBroadcast(t) == \E i \in 1..Len(thr[t]) : thr[t][i].fn = "broadcast"

\* C5: if a broadcast's write to one peer fails, that peer is removed from both maps
\* and the broadcast finishes its loop and returns to its caller.
C5_FailedPeerIsUnregistered ==
    \A t, p \in Conns :
        WriteFailedTo(t, p)
          ~> (p \notin ClientConns /\ p \notin Range(username_to_conn) /\ ~InBroadcast(t))

C7_RepeatedUnregisterIsNoOp ==
    /\ [][\A t \in Conns :
            (/\ Len(thr[t]) > 0 /\ Top(t).fn = "remove_client"
             /\ Top(t).conn \notin ClientConns /\ Top(t).pc \in {"lock", "body"}
             /\ Stepped(t))
            => (clients' = clients /\ username_to_conn' = username_to_conn
                  /\ sent' = sent)]_vars
    /\ \A t \in Conns :
          (/\ At(t, "remove_client", "lock")
           /\ Top(t).conn \notin ClientConns
           /\ joinResult[Top(t).conn] = "accepted")
          ~> (thr[t] = <<>>)

\* C8 as stated: for every byte string received by the server and every way of
\* splitting it into reads, the dispatched frames are those of a single read.
C8_ServerFramesWhateverTheReads ==
    (side = "server" /\ dpc = "recv") => frames = ServerParseAll(Delivered)

\* C8, amended: for every byte string made of well-formed frames (known text
\* commands ended by a newline, SCRN frames with a non-negative decimal length and
\* that many bytes) and every way of splitting it into reads, the dispatched
\* frames are those of a single read.
C8_WellFormedFramesWhateverTheReads ==
    (side = "server" /\ dpc = "recv" /\ input \in ServerWellFormed)
        => frames = ServerParseAll(Delivered)

C8_Witness ==
    /\ side = "server" /\ dpc = "recv" /\ input \in ServerWellFormed
    /\ pos < Len(input)
    /\ Len(frames) = 1 /\ frames[1].kind = "SCRN"
    /\ buffer = <<"M", "S">>

\* C9: for every byte string the client receives and every way of splitting it
\* into reads, the emitted events (commands, SCRN subframes, file bytes) are
\* those of a single read.  Stated here for streams of well-formed frames, where no
\* malformed header is discarded.
C9_ClientEventsWhateverTheReads ==
    (side = "client" /\ dpc = "recv" /\ input \in ClientWellFormed)
        => frames = ClientParseAll(Delivered)

\* A SCRN header read off the buffer field by field: SCRN:<len>: on the server,
\* SCRN:<user>:<len>: on the client, the length a run of decimal digits.
DigitsOnly(s) == s # <<>> /\ \A i \in 1..Len(s) : IsDigit(s[i])
Field(s, k) == IF k = 1 THEN Before(s, ":") ELSE Before(After(s, ":"), ":")
ParseStepTaken == dpc = "parse" /\ (dpc' # dpc \/ frames' # frames \/ buffer' # buffer)
ServerScrnHeader ==
    /\ side = "server" /\ dpc = "parse"
    /\ Contains(buffer, ":") /\ Before(buffer, ":") = SCRN
    /\ Contains(After(buffer, ":"), ":")
    /\ DigitsOnly(Field(After(buffer, ":"), 1))
ClientScrnHeader ==
    /\ side = "client" /\ dpc = "parse"
    /\ Contains(buffer, ":") /\ Before(buffer, ":") = SCRN
    /\ Contains(After(buffer, ":"), ":")
    /\ DecodeOk(Field(After(buffer, ":"), 1))
    /\ Contains(After(After(buffer, ":"), ":"), ":")
    /\ DigitsOnly(Field(After(buffer, ":"), 2))
ScrnParsed(n, body, subframe) ==
    IF Len(body) < n
    THEN frames' = frames /\ buffer' = buffer /\ dpc' = "recv"
    ELSE /\ frames' = Append(frames, subframe)
         /\ buffer' = SubSeq(body, n + 1, Len(body))

\* C10: a SCRN header with length n emits nothing while fewer than n body bytes
\* are buffered; with at least n, the parse emits one subframe of the first n body
\* bytes and leaves every byte after them in the buffer.
C10_ScrnSubframeAndRemainder ==
    [][/\ (ServerScrnHeader /\ ParseStepTaken) =>
            LET n == DecimalValue(Field(After(buffer, ":"), 1))
                body == After(After(buffer, ":"), ":")
            IN ScrnParsed(n, body, [kind |-> "SCRN", data |-> SubSeq(body, 1, n)])
       /\ (ClientScrnHeader /\ ParseStepTaken) =>
            LET n == DecimalValue(Field(After(buffer, ":"), 2))
                body == After(After(After(buffer, ":"), ":"), ":")
            IN ScrnParsed(n, body, [kind |-> "SCRN",
                                    username |-> Field(After(buffer, ":"), 1),
                                    data |-> SubSeq(body, 1, n)])]_vars

C10_Witness ==
    /\ side = "client" /\ dpc = "parse"
    /\ frames = << [kind |-> "SCRN", username |-> <<"b">>, data |-> <<":", NL>>] >>
    /\ buffer = <<"P", "O">>

IsPrefix(a, b) == Len(a) <= Len(b) /\ a = SubSeq(b, 1, Len(a))
Relays == 1..Len(relay)

\* C11: for a FILE_INIT of size N to a live target whose sender then writes exactly N
\* file bytes, what the relay writes to the receiver is those N bytes in order: at
\* every moment a prefix of them, and all of them when the relay reports success.
C11_RelayWritesExactlyTheFile ==
    \A i \in Relays :
        (relay[i].receiver_conn # NoConn /\ relay[i].filesize >= 0) =>
            /\ IsPrefix(relay[i].relayed, FileBytes(relay[i].filesize))
            /\ relay[i].outcome = "success" => relay[i].relayed = FileBytes(relay[i].filesize)

\* C12: on the receiver's connection nothing but the relay's own chunks is written
\* between the FILE_INCOMING line and the relay's latest chunk.
C12_NothingBetweenNoticeAndFileBytes ==
    \A i \in Relays :
        relay[i].incoming_at > 0 =>
            relay[i].last_at - relay[i].incoming_at = relay[i].nwrites

\* C13: in every relay bytesRelayed never exceeds sizeBytes, a read asks for at most
\* min(4096, sizeBytes - bytesRelayed) bytes and returns no more than it asked for,
\* and bytesRelayed is the number of bytes written to the receiver.
C13_RelayAccounting ==
    \A i \in Relays :
        /\ relay[i].bytes_transferred <= relay[i].filesize
        /\ relay[i].bytes_transferred = Len(relay[i].relayed)
        /\ relay[i].pc = "write" =>
              /\ relay[i].chunk_size <= RelayChunk
              /\ relay[i].chunk_size <= relay[i].filesize - relay[i].bytes_transferred
              /\ Len(relay[i].chunk) <= relay[i].chunk_size

\* The accounting of C13 for the relays whose announced size is not negative.
RelayAccountingFromZero ==
    \A i \in Relays :
        relay[i].filesize >= 0 =>
            /\ relay[i].bytes_transferred <= relay[i].filesize
            /\ relay[i].bytes_transferred = Len(relay[i].relayed)
            /\ relay[i].pc = "write" =>
                  /\ relay[i].chunk_size <= RelayChunk
                  /\ relay[i].chunk_size <= relay[i].filesize - relay[i].bytes_transferred
                  /\ Len(relay[i].chunk) <= relay[i].chunk_size

IsFileIncoming(m) ==
    Len(m) >= Len(FILE_INCOMING) /\ SubSeq(m, 1, Len(FILE_INCOMING)) = FILE_INCOMING
TargetAbsent(i) == relay[i].target_username \notin DOMAIN username_to_conn

Live(d) == d \in ClientConns /\ ~peerClosed[d]
HasMessage(d, m) == \E k \in 1..Len(sent[d]) : sent[d][k] = m
MsgFrames == {f \in DispatchFrames : f.command = MSG}
ScrnFrames == {f \in DispatchFrames : f.command = SCRN}
SignalFrames == {f \in DispatchFrames : f.command \in {SCRN_START, SCRN_STOP}}

\* Every CHAT line a connection was sent is the line of a MSG another connection
\* dispatched, with that connection's username and the payload unchanged.
ChatOnlyToOthersUnchanged ==
    \A d \in Conns : \A k \in 1..Len(sent[d]) :
        IsPrefix(CHAT \o <<":">>, sent[d][k]) =>
            \E t \in Dispatchers \ {d} : \E f \in MsgFrames :
                /\ sent[d][k] = ChatLine(NameOfConn(t), f.payload)
                /\ nmsg[t] = 1 => dispatched[t] = f

\* C15: every MSG a registered sender's connection dispatches is sent as
\* CHAT:<username>:<payload> to every other session that stays live, never to the
\* sender's own connection, and with the text unchanged.
C15_ChatReachesEveryOtherLiveSession ==
    /\ []ChatOnlyToOthersUnchanged
    /\ \A t \in Dispatchers : \A d \in Registered \ {t} : \A f \in MsgFrames :
          (dispatched[t] = f /\ Live(d))
              ~> (HasMessage(d, ChatLine(NameOfConn(t), f.payload)) \/ ~Live(d))

C15_Witness ==
    /\ dispatched[SenderConn] = [command |-> MSG, payload |-> <<"a", ":", "b">>]
    /\ HasMessage(ReceiverConn, ChatLine(SenderName, <<"a", ":", "b">>))
    /\ HasMessage(BystanderConn, ChatLine(SenderName, <<"a", ":", "b">>))
    /\ sent[SenderConn] = <<>>

\* Every SCRN frame a connection was sent is the frame of a subframe another
\* connection dispatched: the presenter's username, the count of its bytes, its bytes.
ScrnOnlyToOthersUnchanged ==
    \A d \in Conns : \A k \in 1..Len(sent[d]) :
        IsPrefix(SCRN \o <<":">>, sent[d][k]) =>
            \E t \in Dispatchers \ {d} : \E f \in ScrnFrames :
                /\ sent[d][k] = SCRN \o <<":">> \o NameOfConn(t) \o <<":">>
                                  \o PyStr(Len(f.payload)) \o <<":">> \o f.payload
                /\ nmsg[t] = 1 => dispatched[t] = f

\* C16: every SCRN subframe the server receives is relayed to each other session that
\* stays live as SCRN:<username>:<count>:<bytes>, where the count is the number of
\* bytes relayed and the bytes are the ones received.
C16_ScrnSubframeRelayedToEveryOtherLiveSession ==
    /\ []ScrnOnlyToOthersUnchanged
    /\ \A t \in Dispatchers : \A d \in Registered \ {t} : \A f \in ScrnFrames :
          (dispatched[t] = f /\ Live(d))
              ~> (HasMessage(d, ScrnRelay(NameOfConn(t), f.payload)) \/ ~Live(d))

C16_Witness ==
    /\ dispatched[SenderConn] = [command |-> SCRN, payload |-> <<":", NL>>]
    /\ HasMessage(ReceiverConn, <<"S", "C", "R", "N", ":", "a", ":", "2", ":", ":", NL>>)
    /\ HasMessage(BystanderConn, <<"S", "C", "R", "N", ":", "a", ":", "2", ":", ":", NL>>)
    /\ sent[SenderConn] = <<>>

IsSignal(m) == IsPrefix(SCRN_START \o <<":">>, m) \/ IsPrefix(SCRN_STOP \o <<":">>, m)
\* The names a client may put in the payload of a screen-share signal.
SignalPayloads == {SenderName, ReceiverName, BystanderName, AbsentName, <<>>}

C18_PingAnsweredOnSameConnection ==
    [][\A t \in Dispatchers :
          (dispatched'[t] # dispatched[t] /\ dispatched'[t].command = PING) =>
              /\ \/ sent'[t] = Append(sent[t], PONG \o <<":">> \o dispatched'[t].payload \o <<NL>>)
                 \/ (sent'[t] = sent[t] /\ peerClosed[t])
              /\ \A d \in Conns \ {t} : sent'[d] = sent[d]
              /\ lock' = lock]_vars

C18_Witness ==
    /\ dispatched[SenderConn] = [command |-> PING, payload |-> <<"7">>]
    /\ sent[SenderConn] = << <<"P", "O", "N", "G", ":", "7", NL>> >>
    /\ sent[ReceiverConn] = <<>> /\ sent[BystanderConn] = <<>>
    /\ lock # Free

(***************************************************************************)
(* The UDP relay.                                                           *)
(***************************************************************************)
\* The listener is not in the middle of a datagram: it waits for one, or has ended.
UdpBetweenDatagrams == udp.pc \in {"recvfrom", "stopped"} /\ udp.nrecv > 0
UdpForwarded(data, to, n) ==
    \E k \in 1..Len(udp_sent) : udp_sent[k] = [data |-> data, to |-> to, n |-> n]

\* What the listener sends is a datagram it received, unmodified, to the address of
\* a session, and never to the address the datagram came from.
UdpNeverEchoedUnmodified ==
    \A k \in 1..Len(udp_sent) :
        /\ udp_sent[k].n \in 1..Len(udp.log)
        /\ udp_sent[k].data = udp.log[udp_sent[k].n].data
        /\ udp_sent[k].to # udp.log[udp_sent[k].n].addr
        /\ udp_sent[k].to \in SessionAddrs

\* C19: a datagram received from address A is forwarded unmodified to the UDP address
\* of every live session whose address differs from A (those whose sendto raised
\* apart), and never to A.
C19_DatagramForwardedToEveryOtherSession ==
    /\ UdpNeverEchoedUnmodified
    /\ UdpBetweenDatagrams =>
          \A c \in ClientConns :
              (client_udp_addr[c] # udp.addr /\ client_udp_addr[c] \notin udp.failed) =>
                  UdpForwarded(udp.data, client_udp_addr[c], udp.nrecv)

\* C20: a sendto that fails for one destination neither keeps the datagram from the
\* remaining destinations nor ends the listener: while the server runs the listener
\* never leaves its loop, and once a datagram is dealt with a send has been attempted
\* to every session's address.
C20_SendFailureDoesNotStopTheRelay ==
    /\ udp.running => udp.pc # "stopped"
    /\ UdpBetweenDatagrams =>
          \A c \in ClientConns : client_udp_addr[c] \in udp.covered

(***************************************************************************)
(* The quality estimator.                                                   *)
(***************************************************************************)
\* The sequence numbers received from one username, in order of arrival.
SeqsFrom(u) ==
    LET own == SelectSeq(media.log, LAMBDA r : r.username = u)
    IN [i \in 1..Len(own) |-> own[i].seq_num]

\* C21: per source username every video packet with sequence number seq does
\* lost += max(0, seq - lastSeq - 1), total += 1, lastSeq = seq and touches no other
\* username's counters; the first packet of a username adds no loss; and the packets
\* 0, 1, 2, 5, 6 give lost = 2, total = 5 and a reported loss of 40 percent.
C21_LossCountedPerUsername ==
    /\ [][media'.log # media.log =>
            LET p == media'.log[Len(media'.log)]
                u == p.username
            IN /\ u \in DOMAIN media'.metrics
               /\ IF u \in DOMAIN media.metrics
                  THEN /\ media'.metrics[u].lost =
                             media.metrics[u].lost
                               + Max(0, p.seq_num - media.metrics[u].last_seq - 1)
                       /\ media'.metrics[u].total = media.metrics[u].total + 1
                  ELSE /\ media'.metrics[u].lost = 0
                       /\ media'.metrics[u].total = 1
               /\ media'.metrics[u].last_seq = p.seq_num
               /\ \A w \in DOMAIN media.metrics \ {u} :
                     /\ w \in DOMAIN media'.metrics
                     /\ media'.metrics[w] = media.metrics[w]]_vars
    /\ [](\A u \in MediaNames :
            SeqsFrom(u) = <<0, 1, 2, 5, 6>> =>
                /\ media.metrics[u].lost = 2
                /\ media.metrics[u].total = 5
                /\ media.emitted[u] = 40)

C21_Witness ==
    /\ SeqsFrom(SenderName) = <<0, 1, 2, 5, 6>>
    /\ media.metrics[SenderName] = [last_seq |-> 6, lost |-> 2, total |-> 5]
    /\ media.emitted[SenderName] = 40

(***************************************************************************)
(* remove_client, step by step.                                             *)
(***************************************************************************)
\* Thread t is in remove_client(c), under the lock, with c still registered.
Unregistering(t, c) ==
    /\ Len(thr[t]) > 0
    /\ thr[t][1].fn = "remove_client" /\ thr[t][1].conn = c /\ thr[t][1].pc = "body"
    /\ c \in ClientConns

\* C22: remove_client on a registered connection removes the session from both maps,
\* then broadcasts USER_LEFT:<username>, then the SYSTEM departure notice, then closes
\* the connection's socket: the socket is closed only after the removal and the two
\* broadcast calls, and it is eventually closed.
C22_UnregisterInOrderThenClose ==
    /\ [][\A c \in Conns :
            (closed'[c] /\ ~closed[c]) =>
                /\ c \notin ClientConns
                /\ \A u \in DOMAIN username_to_conn : username_to_conn[u] # c
                /\ \E t \in Conns :
                      /\ Len(thr[t]) > 0
                      /\ Top(t).fn = "remove_client" /\ Top(t).pc = "system_sent"]_vars
    /\ \A t \in Conns : \A c \in Conns : Unregistering(t, c) ~> closed[c]

(***************************************************************************)
(* The file relay and the sender's command loop.                            *)
(***************************************************************************)
\* A relay whose target was found and that has not ended.
Active(i) == relay[i].pc \in {"notify", "recv", "write"}

\* C23: while a file relay for a sender is active the relay is the only reader of the
\* sender's connection: the sender's command loop neither reads nor dispatches
\* (its buffer and its dispatched frames stay as they are), and no second relay for
\* that sender is active at the same time.
C23_RelayIsTheOnlyReader ==
    /\ [][(\E i \in Relays : Active(i)) => (buffer' = buffer /\ frames' = frames)]_vars
    /\ [](\A i, j \in Relays : (Active(i) /\ Active(j)) => i = j)

\* A relay ended the way the loop of handle_file_transfer says: success exactly when
\* everything announced was relayed, failure at a zero-length read with nothing
\* written after it.
EndedAsCounted(i) ==
    /\ relay[i].outcome = "success" <=>
          (relay[i].receiver_conn # NoConn /\ relay[i].incoming_at > 0
             /\ relay[i].bytes_transferred = relay[i].filesize)
    /\ relay[i].outcome = "disconnected" => relay[i].bytes_transferred < relay[i].filesize
    /\ Len(relay[i].relayed) = relay[i].bytes_transferred

\* C24: every started relay eventually ends when the sender wrote the announced bytes
\* or closed its connection; it ends in success exactly when bytesRelayed equals
\* sizeBytes, and in failure at the first zero-length read, writing nothing more.
C24_EveryRelayEnds ==
    /\ [](\A i \in Relays : relay[i].pc = "done" => EndedAsCounted(i))
    /\ [][\A i \in Relays :
            (relay[i].pc = "done" /\ i \in 1..Len(relay')) => relay'[i] = relay[i]]_vars
    /\ (Relays # {}) ~> (\A i \in Relays : relay[i].pc = "done")

\* C25: a write to the receiver that fails during a relay (the FILE_INCOMING notice or
\* a chunk) is followed by the receiver's removal from both maps and by USER_LEFT for
\* it to the other sessions.
C25_FailedReceiverIsUnregistered ==
    (\E i \in Relays : relay[i].outcome \in {"unreachable", "error"})
        ~> (/\ ReceiverConn \notin ClientConns
            /\ ReceiverName \notin DOMAIN username_to_conn
            /\ \E k \in 1..Len(sent[BystanderConn]) :
                  sent[BystanderConn][k] = UserLeft(ReceiverName))

(***************************************************************************)
(* The client's raw mode (TCPReceiver.run with FileReceiverWorker).        *)
(***************************************************************************)
IsIncoming(f) == f.kind = "text" /\ f.command = FILE_INCOMING
\* The position in frames of the last FILE_INCOMING dispatched, 0 when none was.
LastIncoming ==
    LET at == {i \in 1..Len(frames) : IsIncoming(frames[i])}
    IN IF at = {} THEN 0 ELSE CHOOSE i \in at : \A j \in at : j <= i
\* The size announced by the last FILE_INCOMING, and how many bytes have gone
\* to the file consumer (file_data_received) since.
AnnouncedSize == PyInt(ThirdPart(frames[LastIncoming].payload)).value
HandedOver == Cardinality({j \in (LastIncoming + 1)..Len(frames) : frames[j].kind = "file"})
FileBytesOwed ==
    IF side = "client" /\ LastIncoming > 0 /\ AnnouncedSize > HandedOver
    THEN AnnouncedSize - HandedOver ELSE 0

\* C26: on the client, from the dispatch of FILE_INCOMING of size N until N bytes
\* have been handed to the file consumer, no step parses a received byte as command
\* data: the command buffer is left as it is and nothing but file bytes is emitted,
\* also for the bytes that came in the same read as the FILE_INCOMING line.
C26_NoCommandParsedWhileFileBytesOwed ==
    [][FileBytesOwed > 0 =>
          /\ buffer' = buffer
          /\ Len(frames') >= Len(frames)
          /\ \A j \in (Len(frames) + 1)..Len(frames') : frames'[j].kind = "file"]_vars

\* A client that is sent a FILE_INCOMING line, the announced bytes and then
\* possibly a command, in reads of any sizes.
RawModeInputs ==
    {fi \o then : fi \in {InFileIncoming, InFileIncomingEmpty}, then \in {<<>>, InChat, InPong}}
InitRawMode ==
    /\ clients = <<>>
    /\ username_to_conn = <<>>
    /\ lock = Free
    /\ thr = [c \in Conns |-> <<>>]
    /\ sent = [c \in Conns |-> <<>>]
    /\ closed = [c \in Conns |-> FALSE]
    /\ peerClosed = [c \in Conns |-> FALSE]
    /\ joinResult = [c \in Conns |-> "unconnected"]
    /\ nmsg = [c \in Conns |-> 0]
    /\ side = "client"
    /\ input \in RawModeInputs
    /\ pos = 0
    /\ buffer = <<>>
    /\ dpc = "recv"
    /\ frames = <<>>
    /\ is_receiving_file = FALSE
    /\ worker = NoWorker
    /\ AuxIdle
NextRawMode == ClientRecv \/ ClientParse \/ IncomingFileReply \/ WriteChunk
SpecRawMode == InitRawMode /\ [][NextRawMode]_vars
\* The receiver thread, the dialog and the file worker all keep running.
FairSpecRawMode == SpecRawMode /\ WF_vars(NextRawMode)

\* The file bytes a step hands to the file consumer.
NewFileBytes == Cardinality({j \in (Len(frames) + 1)..Len(frames') : frames'[j].kind = "file"})

\* C27: on the client raw mode always ends: once the bytes announced by a
\* FILE_INCOMING have all been received (here: the whole input, which holds them)
\* the demultiplexer is eventually back in line mode, whether the file was accepted
\* or declined and also for size 0; and no byte beyond the announced ones is taken
\* as file data instead of being parsed as command data.
C27_RawModeAlwaysEnds ==
    /\ [][side = "client" => NewFileBytes <= FileBytesOwed]_vars
    /\ (side = "client" /\ LastIncoming > 0 /\ pos = Len(input)) ~> ~is_receiving_file

(***************************************************************************)
(* The client's writers to its TCP socket: the GUI thread (chat input,     *)
(* heartbeat timer, file and screen-share buttons), the FileSenderWorker   *)
(* thread and the ScreenShareWorker thread.  csend.wire is the sequence of *)
(* sendall calls on the socket, in the order they were made.               *)
(***************************************************************************)
\* The most control writes of one run.
MaxWrites == 4
\* FileSenderWorker.run: f.read(4096)
FileReadSize == 4096

Sendall(kind, data) == [kind |-> kind, data |-> data]

InitClientSend ==
    /\ clients = <<>>
    /\ username_to_conn = <<>>
    /\ lock = Free
    /\ thr = [c \in Conns |-> <<>>]
    /\ sent = [c \in Conns |-> <<>>]
    /\ closed = [c \in Conns |-> FALSE]
    /\ peerClosed = [c \in Conns |-> FALSE]
    /\ joinResult = [c \in Conns |-> "unconnected"]
    /\ nmsg = [c \in Conns |-> 0]
    /\ DemuxIdle
    /\ relay = <<>>
    /\ dispatched = [c \in Conns |-> NoCommand]
    /\ client_udp_addr = [c \in Conns |-> NoAddr]
    /\ udp = UdpIdleThread
    /\ udp_sent = <<>>
    /\ media = MediaIdle
    /\ csend = CsendIdle

\* One more sendall of a control message.
ControlWrite(kind, data) ==
    [csend EXCEPT !.wire = Append(@, Sendall(kind, data)), !.nwrites = @ + 1]

\* initiate_file_transfer: the FILE_INIT line is written by the GUI thread, then
\* the FileSenderWorker is started on a thread of its own.
InitiateFileTransfer ==
    /\ csend.file = "none"
    /\ csend.nwrites < MaxWrites
    /\ \E n \in 0..MaxFileSize :
          csend' = [ControlWrite("FILE_INIT", FileInitLine(ReceiverName, n))
                       EXCEPT !.file = "sending", !.left = FileBytes(n)]
    /\ UNCHANGED <<regVars, dmxVars, relay, dispatched, client_udp_addr, udp, udp_sent, media>>

\* FileSenderWorker.run: one turn of `while chunk := f.read(4096)`
FileSenderRun ==
    /\ csend.file = "sending"
    /\ LET chunk == SubSeq(csend.left, 1, Min(FileReadSize, Len(csend.left)))
       IN IF chunk = <<>>
          THEN csend' = [csend EXCEPT !.file = "none"]
          ELSE csend' = [csend EXCEPT
                  !.wire = Append(@, Sendall("file", chunk)),
                  !.left = SubSeq(@, Len(chunk) + 1, Len(@))]
    /\ UNCHANGED <<regVars, dmxVars, relay, dispatched, client_udp_addr, udp, udp_sent, media>>

\* send_ping, on the heartbeat timer
SendPing ==
    /\ csend.nwrites < MaxWrites
    /\ csend' = ControlWrite("PING", InPing)
    /\ UNCHANGED <<regVars, dmxVars, relay, dispatched, client_udp_addr, udp, udp_sent, media>>

\* send_chat_message
SendChatMessage ==
    /\ csend.nwrites < MaxWrites
    /\ csend' = ControlWrite("MSG", InMsg)
    /\ UNCHANGED <<regVars, dmxVars, relay, dispatched, client_udp_addr, udp, udp_sent, media>>

\* toggle_screen_share: SCRN_START and a ScreenShareWorker, or its stop and SCRN_STOP
ToggleScreenShare ==
    /\ csend.nwrites < MaxWrites
    /\ csend' = [(IF csend.sharing
                  THEN ControlWrite("SCRN_STOP", ScrnStopLine(SenderName))
                  ELSE ControlWrite("SCRN_START", ScrnStartLine(SenderName)))
                    EXCEPT !.sharing = ~csend.sharing]
    /\ UNCHANGED <<regVars, dmxVars, relay, dispatched, client_udp_addr, udp, udp_sent, media>>

\* ScreenShareWorker.run: one frame, sendall(header + data)
ScreenShareFrame ==
    /\ csend.sharing
    /\ csend.nwrites < MaxWrites
    /\ csend' = ControlWrite("SCRN", InScrn)
    /\ UNCHANGED <<regVars, dmxVars, relay, dispatched, client_udp_addr, udp, udp_sent, media>>

NextClientSend ==
    \/ InitiateFileTransfer \/ FileSenderRun
    \/ SendPing \/ SendChatMessage
    \/ ToggleScreenShare \/ ScreenShareFrame

SpecClientSend == InitClientSend /\ [][NextClientSend]_vars

\* The size a FILE_INIT line announces, and the file bytes written from write i
\* up to write j.
AnnouncedBy(line) == PyInt(ThirdPart(After(line, ":"))).value
RECURSIVE FileBytesWritten(_, _)
FileBytesWritten(i, j) ==
    IF j < i THEN 0
    ELSE FileBytesWritten(i, j - 1)
           + (IF csend.wire[j].kind = "file" THEN Len(csend.wire[j].data) ELSE 0)

\* C28: on the client's socket nothing is written between a FILE_INIT line and
\* the last byte of the file it announces but the bytes of that file.
C28_NothingInterleavesWithTheFile ==
    \A i \in 1..Len(csend.wire) :
       csend.wire[i].kind = "FILE_INIT" =>
          \A j \in (i + 1)..Len(csend.wire) :
             FileBytesWritten(i + 1, j - 1) < AnnouncedBy(csend.wire[i].data)
                => csend.wire[j].kind = "file"

(***************************************************************************)
(* Text commands: streams of newline-terminated commands, some with a      *)
(* payload byte that is not valid UTF-8, delivered in reads of any sizes.  *)
(***************************************************************************)
MsgUndecodable == <<"M", "S", "G", ":", BadByte, "a", NL>>
ChatUndecodable == <<"C", "H", "A", "T", ":", "b", ":", BadByte, NL>>
ServerLines == {InMsg, InPing, InScrnStop, MsgUndecodable}
ClientLines == {InChat, InPong, InUserLeft, ChatUndecodable}

InitLines ==
    /\ clients = <<>>
    /\ username_to_conn = <<>>
    /\ lock = Free
    /\ thr = [c \in Conns |-> <<>>]
    /\ sent = [c \in Conns |-> <<>>]
    /\ closed = [c \in Conns |-> FALSE]
    /\ peerClosed = [c \in Conns |-> FALSE]
    /\ joinResult = [c \in Conns |-> "unconnected"]
    /\ nmsg = [c \in Conns |-> 0]
    /\ side \in {"server", "client"}
    /\ input \in Streams(IF side = "server" THEN ServerLines ELSE ClientLines, MaxFrames)
    /\ pos = 0
    /\ buffer = <<>>
    /\ dpc = "recv"
    /\ frames = <<>>
    /\ is_receiving_file = FALSE
    /\ worker = NoWorker
    /\ AuxIdle
NextLines == ServerRecv \/ ServerParse \/ ClientRecv \/ ClientParse
SpecLines == InitLines /\ [][NextLines]_vars

\* The newline-terminated lines of a byte string, and what follows the last newline.
RECURSIVE CompleteLines(_)
CompleteLines(s) ==
    IF ~Contains(s, NL) THEN <<>> ELSE <<Before(s, NL)>> \o CompleteLines(After(s, NL))
RECURSIVE Unterminated(_)
Unterminated(s) == IF ~Contains(s, NL) THEN s ELSE Unterminated(After(s, NL))
\* The lines before the first one that has a byte which is not valid UTF-8.
RECURSIVE Decodable(_)
Decodable(lines) ==
    IF lines = <<>> \/ ~DecodeOk(Head(lines)) THEN <<>>
    ELSE <<Head(lines)>> \o Decodable(Tail(lines))
\* One dispatch per line: the command before the first ':', the bytes after it.
AsReceived(lines) ==
    [i \in 1..Len(lines) |-> TextFrame(Before(lines[i], ":"), After(lines[i], ":"))]
\* The same with the payload decoded as the server decodes it.
AsDecoded(lines) ==
    [i \in 1..Len(lines) |->
        TextFrame(Before(lines[i], ":"), DecodeIgnore(After(lines[i], ":")))]
ParsedAll == dpc \in {"recv", "stopped"}

UndecodableName == Contains(buffer, ":") /\ ~DecodeOk(Before(buffer, ":"))
\* The buffer starts with a SCRN header whose length field is there and is not an
\* integer (on the client the length is the field after the username).
BadScrnLength ==
    /\ Contains(buffer, ":") /\ Before(buffer, ":") = SCRN
    /\ LET rest == After(buffer, ":")
       IN IF side = "server"
          THEN Contains(rest, ":") /\ ~PyInt(Before(rest, ":")).ok
          ELSE /\ Contains(rest, ":") /\ DecodeOk(Before(rest, ":"))
               /\ Contains(After(rest, ":"), ":")
               /\ ~PyInt(Before(After(rest, ":"), ":")).ok
\* The parse step dispatches nothing, empties the buffer and goes back to recv.
Discarded == frames' = frames /\ buffer' = <<>> /\ dpc' = "recv"

UnknownLine == <<"X", ":", "y", NL>>
BadLengthLine == <<"S", "C", "R", "N", ":", "z", ":", NL>>
BadLengthFromLine == <<"S", "C", "R", "N", ":", "b", ":", "z", ":", NL>>
ResyncInputs(s) ==
    IF s = "server"
    THEN {junk \o valid : junk \in {UnknownLine, BadLengthLine}, valid \in {InMsg, InPing}}
    ELSE {junk \o valid : junk \in {UnknownLine, BadLengthFromLine, InBadHeaderFrom},
                          valid \in {InChat, InPong}}
InitResync ==
    /\ clients = <<>>
    /\ username_to_conn = <<>>
    /\ lock = Free
    /\ thr = [c \in Conns |-> <<>>]
    /\ sent = [c \in Conns |-> <<>>]
    /\ closed = [c \in Conns |-> FALSE]
    /\ peerClosed = [c \in Conns |-> FALSE]
    /\ joinResult = [c \in Conns |-> "unconnected"]
    /\ nmsg = [c \in Conns |-> 0]
    /\ side \in {"server", "client"}
    /\ input \in ResyncInputs(side)
    /\ pos = 0
    /\ buffer = <<>>
    /\ dpc = "recv"
    /\ frames = <<>>
    /\ is_receiving_file = FALSE
    /\ worker = NoWorker
    /\ AuxIdle
SpecResync == InitResync /\ [][NextLines]_vars

\* The buffer starts with a name that is no command of this side.
UnknownName ==
    /\ Contains(buffer, ":")
    /\ IF side = "server"
       THEN DecodeIgnore(Before(buffer, ":")) \notin (ServerTextCommands \cup {SCRN})
       ELSE DecodeOk(Before(buffer, ":"))
              /\ Before(buffer, ":") \notin (ClientTextCommands \cup {SCRN})
\* What this side's parser dispatches first from bytes b.
FirstDispatch(b) == IF side = "server" THEN ServerParseStep(b).emit ELSE ClientParseStep(b).emit
\* The parser is at an unknown or malformed header, and after the next newline the
\* buffer holds a complete valid command.
ValidCommandAfterJunk ==
    /\ ParseStepTaken
    /\ UnknownName \/ UndecodableName \/ BadScrnLength
    /\ Contains(buffer, NL)
    /\ FirstDispatch(After(buffer, NL)) # <<>>

CommandInputs == Streams({UnknownLine, InUnknown, InMsg, InPing, InScrnEmpty}, MaxFrames)

InitCommands ==
    /\ clients = [i \in 1..3 |->
                    [conn |-> <<SenderConn, ReceiverConn, BystanderConn>>[i],
                     username |-> NameOfConn(<<SenderConn, ReceiverConn, BystanderConn>>[i])]]
    /\ username_to_conn = [u \in {NameOfConn(c) : c \in Registered} |->
                              CHOOSE c \in Registered : NameOfConn(c) = u]
    /\ lock = Free
    /\ thr = [c \in Conns |-> IF c \in Registered
                              THEN <<HandleClientFrame("recv", NameOfConn(c))>>
                              ELSE <<>>]
    /\ sent = [c \in Conns |-> <<>>]
    /\ closed = [c \in Conns |-> FALSE]
    /\ peerClosed = [c \in Conns |-> FALSE]
    /\ joinResult = [c \in Conns |-> IF c \in Registered THEN "accepted" ELSE "unconnected"]
    /\ nmsg = [c \in Conns |-> 0]
    /\ side = "server"
    /\ input \in CommandInputs
    /\ pos = 0
    /\ buffer = <<>>
    /\ dpc = "recv"
    /\ frames = <<>>
    /\ is_receiving_file = FALSE
    /\ worker = NoWorker
    /\ AuxIdle

\* handle_client on the sender's connection: one iteration of the inner loop, with
\* the call it makes for a complete frame.
ParseAndDispatch ==
    /\ side = "server" /\ dpc = "parse"
    /\ At(SenderConn, "handle_client", "recv")
    /\ \E r \in {ServerParseStep(buffer)} :
          /\ buffer' = r.buffer
          /\ frames' = frames \o r.emit
          /\ dpc' = IF r.again THEN "parse" ELSE "recv"
          /\ IF r.emit = <<>> THEN UNCHANGED <<thr, sent>>
             ELSE IF Head(r.emit).kind = "SCRN"
             THEN /\ thr' = Call(SenderConn, Top(SenderConn),
                                 BinaryFrame(SenderConn, SenderName, Head(r.emit).data))
                  /\ UNCHANGED sent
             ELSE LET e == HandleTcpMessage(SenderName, Head(r.emit).command,
                                            Head(r.emit).payload) IN
                  CASE e.do = "broadcast" ->
                         /\ thr' = Call(SenderConn, Top(SenderConn),
                                        BroadcastFrame(e.message, SenderConn))
                         /\ UNCHANGED sent
                    [] e.do = "reply" ->
                         \E ok \in WriteOutcomes(SenderConn) :
                            /\ sent' = Written(SenderConn, e.message, ok)
                            /\ thr' = IF ok THEN thr
                                      ELSE SetTop(SenderConn,
                                                  [Top(SenderConn) EXCEPT !.pc = "finally"])
                    [] OTHER -> UNCHANGED <<thr, sent>>
    /\ UNCHANGED <<clients, username_to_conn, lock, closed, peerClosed, joinResult, nmsg>>
    /\ UNCHANGED <<side, input, pos, is_receiving_file, worker>>
    /\ UNCHANGED auxVars

\* conn.recv on the sender's connection, once the call for the last frame is back
CommandRecv == At(SenderConn, "handle_client", "recv") /\ ServerRecv

NextCommands ==
    \/ CommandRecv
    \/ ParseAndDispatch
    \/ BroadcastAcquire(SenderConn) \/ BroadcastSend(SenderConn) \/ BroadcastReturn(SenderConn)
    \/ BinaryAcquire(SenderConn) \/ BinarySend(SenderConn) \/ BinaryReturn(SenderConn)

SpecCommands == InitCommands /\ [][NextCommands]_vars

\* C32: an unknown command received by the server changes nothing but the sender's
\* receive buffer: nothing is written to any session, no call is started, both
\* registry maps stay as they are and the sender stays registered and connected.
C32_UnknownCommandTouchesOnlyTheBuffer ==
    [][(ParseStepTaken /\ UnknownName) =>
          /\ buffer' = <<>>
          /\ UNCHANGED <<sent, thr, lock, clients, username_to_conn, closed, frames>>
          /\ SenderConn \in ClientConns /\ SenderName \in DOMAIN username_to_conn]_vars
\* An unknown command has been received and discarded after a chat message of the
\* same sender was broadcast.
C32_Witness ==
    /\ input = InMsg \o UnknownLine
    /\ pos = Len(input) /\ dpc = "recv" /\ buffer = <<>>
    /\ Len(frames) = 1
    /\ Len(sent[ReceiverConn]) = 1 /\ Len(sent[BystanderConn]) = 1 /\ sent[SenderConn] = <<>>
    /\ ClientConns = Registered

(***************************************************************************)
(* The estimator over a peer's life: sequence numbers around the wrap of   *)
(* VideoWorker's 16-bit counter, and peers that leave.                     *)
(***************************************************************************)
\* VideoWorker.run: self.seq_num = (self.seq_num + 1) % 65536
SeqModulus == 65536
WrapSeqs == {SeqModulus - 2, SeqModulus - 1, 0, 1, 2}

\* MediaReceiver.run, one video packet of a peer whose counter is about to wrap or
\* has just wrapped.
MediaVideoWrap ==
    /\ media.pc = "recvfrom"
    /\ Len(media.log) < MaxPackets
    /\ \E username \in MediaNames : \E seq_num \in WrapSeqs :
       \E v \in {SplitVideo(VideoPacket(username, seq_num))} :
       \E stats \in {IF v.username \in DOMAIN media.metrics
                     THEN media.metrics[v.username]
                     ELSE StatsFirst(v.seq_num)} :
       \E after \in {StatsAfter(stats, v.seq_num)} :
          /\ v.ok
          /\ media' = [media EXCEPT
                !.metrics = MapPut(@, v.username, after),
                !.emitted = MapPut(@, v.username, LossPct(after)),
                !.log = Append(@, [username |-> username, seq_num |-> seq_num,
                                   left |-> FALSE])]
    /\ UNCHANGED <<regVars, dmxVars, relay, dispatched, client_udp_addr, udp, udp_sent, csend>>

\* handle_user_left, on USER_LEFT:<username>: the window's user_metrics entry is
\* popped; MediaReceiver.metrics is not touched.
HandleUserLeft ==
    /\ media.pc = "recvfrom"
    /\ Len(media.log) < MaxPackets
    /\ \E username \in MediaNames :
          media' = [media EXCEPT
             !.emitted = MapPop(@, username),
             !.log = Append(@, [username |-> username, seq_num |-> 0, left |-> TRUE])]
    /\ UNCHANGED <<regVars, dmxVars, relay, dispatched, client_udp_addr, udp, udp_sent, csend>>

NextPeers == MediaVideoWrap \/ HandleUserLeft
SpecPeers == InitMedia /\ [][NextPeers]_vars

\* The step is the estimator's update for a video packet of username u.
VideoStep(u) ==
    /\ Len(media'.log) = Len(media.log) + 1
    /\ media'.log[Len(media'.log)].username = u
    /\ ~media'.log[Len(media'.log)].left
\* The sequence number of the packet of this step.
StepSeq == media'.log[Len(media'.log)].seq_num

\* C33 (as stated): at the wrap from 65535 to 0 the gap rule, which has no modulo
\* handling, counts a massive loss: lost rises by a large amount.
C33_WrapCountedAsMassiveLoss ==
    [][\A u \in MediaNames :
          (VideoStep(u) /\ u \in DOMAIN media.metrics
             /\ media.metrics[u].last_seq = SeqModulus - 1 /\ StepSeq = 0)
          => media'.metrics[u].lost >= media.metrics[u].lost + (SeqModulus - 1)]_vars

\* C33 (amended): the gap rule has no modulo handling, and at the wrap from 65535
\* to 0 its gap is negative, so the wrap adds nothing to lost: whenever a packet's
\* sequence number is not above lastSeq, lost stays as it is, total rises by one and
\* lastSeq becomes the new number; packets lost across the wrap are not counted.
C33_WrapAddsNoLoss ==
    [][\A u \in MediaNames :
          (VideoStep(u) /\ u \in DOMAIN media.metrics
             /\ StepSeq <= media.metrics[u].last_seq)
          => /\ media'.metrics[u].lost = media.metrics[u].lost
             /\ media'.metrics[u].total = media.metrics[u].total + 1
             /\ media'.metrics[u].last_seq = StepSeq]_vars
\* A peer's packets 65534, 65535, 0, 1 have arrived and none counts as lost.
C33_Witness ==
    /\ Len(media.log) = 4
    /\ \A i \in 1..4 : media.log[i].username = SenderName /\ ~media.log[i].left
    /\ [i \in 1..4 |-> media.log[i].seq_num] = <<SeqModulus - 2, SeqModulus - 1, 0, 1>>
    /\ media.metrics[SenderName] = [last_seq |-> 1, lost |-> 0, total |-> 4]

\* Username u has left and has sent no video packet since.
LeftLast(u) ==
    LET own == {i \in 1..Len(media.log) : media.log[i].username = u}
    IN own # {} /\ media.log[CHOOSE i \in own : \A j \in own : j <= i].left

\* C34: the metrics record of a username is created on its first video packet and
\* discarded when that peer disconnects: the first video packet after USER_LEFT for
\* the username starts from fresh counters (nothing lost, this packet the only one
\* counted, no remembered lastSeq).
C34_RecordDiscardedOnUserLeft ==
    [][\A u \in MediaNames :
          /\ (VideoStep(u) /\ (u \notin DOMAIN media.metrics \/ LeftLast(u)))
                => media'.metrics[u] = [last_seq |-> StepSeq, lost |-> 0, total |-> 1]
          /\ (Len(media'.log) = Len(media.log) + 1
                /\ media'.log[Len(media'.log)].username = u
                /\ media'.log[Len(media'.log)].left)
                => u \notin DOMAIN media'.metrics]_vars

(***************************************************************************)
(* Shutdown.                                                               *)
(***************************************************************************)
\* A step one of the server's threads takes without anything arriving: stop() going
\* on, the listener forwarding or noticing its closed socket, the handler noticing
\* its closed connection.
ShutdownStep ==
    \/ StopClose
    \/ UdpAcquire \/ UdpSend \/ UdpRelease
    \/ (udp.socket_closed /\ UdpRecvfrom)
    \/ RecvClosed(BystanderConn) \/ Finally(BystanderConn)
    \/ RemoveClientAcquire(BystanderConn) \/ RemoveClientStep(BystanderConn)
\* The scheduler runs every thread that can take a step.
FairSpecUdp == SpecUdp /\ WF_vars(ShutdownStep)

\* C35: after stop() is called, stop() returns, the UDP relay loop ends and the
\* connection handler ends.
C35_StopTerminatesEverything ==
    (udp.stop # "idle") ~>
        (udp.stop = "done" /\ udp.pc = "stopped" /\ thr[BystanderConn] = <<>>)

(***************************************************************************)
(* The registry lock.                                                      *)
(***************************************************************************)
\* Thread t has reached a `with self.lock:` and has not passed it.
WaitingForLock(t) == Len(thr[t]) > 0 /\ Top(t).pc = "lock"

\* C36: no handler thread waits for the registry lock while it holds it itself.
C36_NoThreadReacquiresTheLock ==
    \A t \in Conns : WaitingForLock(t) => lock # t

(***************************************************************************)
(* The order of broadcasts: four sessions, two of which send.              *)
(***************************************************************************)
\* A fourth connection and its username.
ExtraConn == MaxConns + 1
ExtraName == <<"d">>
OrderConns == Registered \cup {ExtraConn}
OrderName(c) == IF c = ExtraConn THEN ExtraName ELSE NameOfConn(c)

\* a, b, c and d are registered and their handlers are in the main loop.
InitOrder ==
    /\ clients = [i \in 1..4 |->
                    [conn |-> <<SenderConn, ReceiverConn, BystanderConn, ExtraConn>>[i],
                     username |->
                        OrderName(<<SenderConn, ReceiverConn, BystanderConn, ExtraConn>>[i])]]
    /\ username_to_conn = [u \in {OrderName(c) : c \in OrderConns} |->
                              CHOOSE c \in OrderConns : OrderName(c) = u]
    /\ lock = Free
    /\ thr = [c \in OrderConns |-> <<HandleClientFrame("recv", OrderName(c))>>]
    /\ sent = [c \in OrderConns |-> <<>>]
    /\ closed = [c \in OrderConns |-> FALSE]
    /\ peerClosed = [c \in OrderConns |-> FALSE]
    /\ joinResult = [c \in OrderConns |-> "accepted"]
    /\ nmsg = [c \in OrderConns |-> 0]
    /\ DemuxIdle
    /\ AuxIdle

\* a and b send commands; any client may close its connection; every handler runs.
NextOrder ==
    \E t \in OrderConns :
        \/ Dispatch(t)
        \/ PeerClose(t)
        \/ BroadcastAcquire(t) \/ BroadcastSend(t) \/ BroadcastReturn(t)
        \/ BinaryAcquire(t) \/ BinarySend(t) \/ BinaryReturn(t)
        \/ RecvClosed(t) \/ Finally(t)
        \/ RemoveClientAcquire(t) \/ RemoveClientStep(t)

SpecOrder == InitOrder /\ [][NextOrder]_vars

\* Message x was written to a connection before message y.
Precedes(s, x, y) == \E i, j \in DOMAIN s : i < j /\ s[i] = x /\ s[j] = y
\* On the connection x came strictly first: every x before every y.
StrictlyBefore(s, x, y) == Precedes(s, x, y) /\ ~Precedes(s, y, x)
\* Thread t is inside the loop of broadcast or handle_tcp_binary, writing to peers.
WritingToPeers(t) ==
    \E i \in DOMAIN thr[t] :
        thr[t][i].fn \in {"broadcast", "handle_tcp_binary"} /\ thr[t][i].pc = "loop"
WrittenTo(c) == {sent[c][i] : i \in DOMAIN sent[c]}

\* C37: two broadcasts that both reach two sessions reach them in the same order, and
\* at most one thread at a time is writing a broadcast to the peers.
C37_BroadcastsTotallyOrdered ==
    /\ \A p, q \in OrderConns : \A x, y \in WrittenTo(p) \cap WrittenTo(q) :
          StrictlyBefore(sent[p], x, y) => ~StrictlyBefore(sent[q], y, x)
    /\ \A t, u \in OrderConns : WritingToPeers(t) /\ WritingToPeers(u) => t = u
\* c and d have both received a broadcast of a and a broadcast of b.
C37_Witness ==
    /\ Len(sent[BystanderConn]) = 2 /\ Len(sent[ExtraConn]) = 2
    /\ WrittenTo(BystanderConn) = WrittenTo(ExtraConn)
    /\ Len(sent[SenderConn]) = 1 /\ Len(sent[ReceiverConn]) = 1
    /\ sent[SenderConn] # sent[ReceiverConn]

(***************************************************************************)
(* The length field of a SCRN subframe.                                    *)
(***************************************************************************)
\* int(size_str) of the SCRN header at the front of the server's buffer.
DeclaredSize == PyInt(Before(After(buffer, ":"), ":"))
\* The server's buffer starts with SCRN:<len>: and int() accepts the length.
ServerScrnLength ==
    /\ side = "server" /\ dpc = "parse"
    /\ Contains(buffer, ":") /\ Before(buffer, ":") = SCRN
    /\ Contains(After(buffer, ":"), ":")
    /\ DeclaredSize.ok

\* C38: a SCRN subframe the server dispatches for relaying has as many bytes as the
\* header it received declares, whatever integer that is; a negative length emits no
\* subframe and leaves none of the bytes after the header in the buffer.
C38_SubframeHasDeclaredLength ==
    [][(ParseStepTaken /\ ServerScrnLength) =>
          /\ frames' # frames =>
                Len(frames'[Len(frames')].data) = DeclaredSize.value
          /\ DeclaredSize.value < 0 => frames' = frames /\ buffer' = <<>>]_vars

(***************************************************************************)
(* The range of the reported loss.                                         *)
(***************************************************************************)
\* C39: the loss percentage reported for a peer is between 0 and 100.
C39_LossPercentageWithinRange ==
    \A u \in DOMAIN media.emitted : media.emitted[u] \in 0..100

(***************************************************************************)
(* The destinations of the UDP relay.                                      *)
(***************************************************************************)
\* The addresses of the sessions in the registry.
RegisteredAddrs == {client_udp_addr[clients[i].conn] : i \in 1..Len(clients)}

\* C40: every datagram the relay sends goes to the address of a session that is in
\* the registry when it is sent, so nothing goes to a removed session's address.
C40_RelayOnlyToRegisteredSessions ==
    [][udp_sent' # udp_sent =>
          /\ udp_sent' = Append(udp_sent, udp_sent'[Len(udp_sent')])
          /\ udp_sent'[Len(udp_sent')].to \in RegisteredAddrs]_vars
\* The first datagram was forwarded to c, then c was removed from the registry, and
\* a second datagram has been received: nothing of it has gone to c's address.
C40_Witness ==
    /\ BystanderConn \notin ClientConns
    /\ udp.nrecv = 2 /\ udp.pc = "lock"
    /\ \E i \in 1..Len(udp_sent) :
          udp_sent[i].to = client_udp_addr[BystanderConn] /\ udp_sent[i].n = 1
    /\ \A i \in 1..Len(udp_sent) : udp_sent[i].n = 1

=============================================================================
